---- MODULE Spec2Model ----
(***************************************************************************)
(* Gateway protocol and channel routing engine of clawdbot.                *)
(*                                                                         *)
(* The module holds several state machines over disjoint groups of         *)
(* variables, one specification each:                                      *)
(*   Spec          the control UI's gateway host: event-gap self-heal      *)
(*                 (attemptGapSelfHeal) next to the handlers that write    *)
(*                 host.lastError and host.chatRunId                       *)
(*   SpecSeq       one connection of the gateway client: frames with       *)
(*                 sequence numbers, some of them lost, the client's gap   *)
(*                 detection and the host's onGap / onEvent callbacks      *)
(*   SpecApproval  the exec-approval queue of the host: requested and      *)
(*                 resolved events, expiry timers, reconnects              *)
(*   SpecAuth      the DingTalk plugin's inbound handler under the         *)
(*                 direct-message policies                                 *)
(*   SpecOutbound  the DingTalk plugin's sendText / sendMedia with the     *)
(*                 session-webhook cache behind them                       *)
(*   SpecConn      the host's connection: hello, close and the chat        *)
(*                 handlers that write host.lastError in between           *)
(*   SpecChat      the chat controller's handleChatEvent on one chat state *)
(*   SpecRetry     one call of the DingTalk plugin's retryWithBackoff      *)
(*   SpecToken     concurrent getAccessToken calls of two accounts         *)
(*   SpecCard      one sendInteractiveCard call: its token, its requests   *)
(*                 and the retries between them                            *)
(*   SpecHistory   self-heal next to sendChatMessage and the chat          *)
(*                 messages that loadChatHistory replaces                  *)
(*   SpecClient    connectGateway called again and the callbacks of the    *)
(*                 clients, the superseded ones among them                 *)
(*   SpecHello     reconnects of the host with a chat run and an approval  *)
(*                 ticket in between                                       *)
(*   SpecPanels    the chat panels, their registry, and the chat events    *)
(*                 routed to the panels or to the host                     *)
(*   SpecSweep     the DingTalk accounts' start and stop and the timer of  *)
(*                 the cache sweep                                         *)
(***************************************************************************)
EXTENDS Integers, Naturals, Sequences, FiniteSets, TLC

(***************************************************************************)
(* Bounds of the model.                                                    *)
(***************************************************************************)
\* how many times the clock advances in one behaviour
MaxTicks == 2
\* how many onGap calls one behaviour makes
MaxGaps == 2
\* how many event frames the server emits on one connection
MaxFrames == 4
\* how many exec.approval events one behaviour delivers
MaxApprovalEvents == 2
\* how many inbound DingTalk messages one behaviour handles
MaxInbound == 1
\* how many inbound DingTalk messages a behaviour with outbound sends handles
MaxCached == 2
\* the largest maxRetries a caller of retryWithBackoff passes
MaxRetriesBound == 3
\* sendChatMessage calls are made while chatMessages is shorter than this
MaxMessages == 2

(***************************************************************************)
(* Program constants.                                                      *)
(***************************************************************************)
GAP_SELF_HEAL_DEBOUNCE_MS == 3000
\* WebSocket close code "service restart"
SERVICE_RESTART_CODE == 1012

\* error.response?.status of an error that carries no response
NoStatus == -1

\* null / undefined of the source, for a message and for an id
Null == <<>>
NullId == "null"
\* Number.NEGATIVE_INFINITY
NegInf == -1000000000

\* the amounts by which Date.now() advances between two handlers
TickSteps == {1, 2999, 3001}

\* {expected, received} pairs the client reports
GapInfos == {[expected |-> 1, received |-> 3]}

\* the values the handshake gives for the first seq of a connection
FirstSeqs == {1, 7}

\* the ids of exec approval requests
ApprovalIds == {"a1", "a2"}

\* expiresAtMs of a request, relative to the time its event arrives
ExpiryOffsets == {-1000, 1000}

\* the amounts by which Date.now() advances between two approval events
ApprovalTickSteps == {400, 1200}

NoApprEvent == [kind |-> "none", id |-> NullId]

\* the refreshes of one resync batch
TaskNames == {"loadDebug", "loadPresence", "refreshActiveTab", "loadChatHistory"}

VARIABLES
  now,            \* Date.now()
  ticks,          \* number of clock advances so far (bounded by MaxTicks)
  connected,      \* host.connected
  lastError,      \* host.lastError
  chatRunId,      \* host.chatRunId
  gaps,           \* number of onGap calls so far (bounded by MaxGaps)
  gapRecovery,    \* host.gapRecovery: [defined, lastAttemptAt, inFlight]
  tasks,          \* the promises of the batch in flight: task -> status
  prevError,      \* attemptGapSelfHeal's local prevError of the batch in flight
  info,           \* attemptGapSelfHeal's parameter info of the batch in flight
  eventLogBuffer, \* host.eventLogBuffer, newest first
  lastStart,      \* history: when the last batch started (NegInf: never)
  lastGap,        \* history: the onGap call of the last step, if it was one
  lastBatch,      \* history: the batch settled by the last step, if it settled one
  expectedSeq,    \* the client's expectedSeq
  serverSeq,      \* the seq the server gives its next event frame
  helloSeq,       \* the first seq of the connection, as the handshake gave it
  delivered,      \* history: the seqs of the frames that reached the client, in order
  execApprovalQueue, \* host.execApprovalQueue: entries [id, expiresAtMs]
  execApprovalError, \* host.execApprovalError
  timers,         \* the pending window.setTimeout callbacks: [id, due], oldest first
  apprEvents,     \* number of exec.approval events so far (bounded)
  apprEvent,      \* history: what the last step did to the queue: [kind, id]
  dingtalkConfig, \* the DingTalk account's configuration
  sessionWebhookCache, \* the Map sessionWebhookCache: key -> entry
  inbounds,       \* number of inbound messages handled so far (bounded)
  inbound,        \* history: the inbound message handled by the last step
  sendPc,         \* where the current sendText / sendMedia call is
  sendReq,        \* its parameters
  sendTrace,      \* history: what the call has done so far
  sendResult,     \* the value it returned
  retry,          \* one retryWithBackoff call: its locals and what it did so far
  accessToken,    \* the module's accessToken
  accessTokenExpiry, \* the module's accessTokenExpiry
  tokenCalls,     \* the getAccessToken calls: call -> [pc, config, now, retry, result]
  cardCall,       \* one sendInteractiveCard call: [pc, config, token, tokenCall,
                  \* retry, attempts]
  chatState,      \* a ChatState: [sessionKey, chatRunId, chatStream,
                  \* chatStreamStartedAt, lastError]
  chatReturn,     \* history: the handleChatEvent call of the last step, if it was one
  chatMessages,   \* host.chatMessages: the roles of the messages, oldest first
  hostFields,     \* host.client (the number of the client), hello, chatStream,
                  \* chatStreamStartedAt, presenceEntries, debugHealth, sessionKey
  registry,       \* the Map registry of the chat panels: index -> panel
  panels,         \* the chat panels: panel -> [mounted, panelIndex, chat]
  dispatch,       \* history: the chat event of the last step and the handlers
                  \* it was given to
  accountPc,      \* where the startAccount of each DingTalk account is
  cleanupIntervalId, \* the module's cleanupIntervalId (0: null)
  intervals,      \* the ids of the setInterval timers that are scheduled
  intervalsMade   \* number of setInterval calls so far

healVars == <<now, ticks, gaps, connected, lastError, chatRunId, gapRecovery, tasks, prevError, info, eventLogBuffer,
              lastStart, lastGap, lastBatch>>

seqVars == <<expectedSeq, serverSeq, helloSeq, delivered>>

apprVars == <<execApprovalQueue, execApprovalError, timers, apprEvents, apprEvent>>

dtVars == <<dingtalkConfig, sessionWebhookCache, inbounds, inbound,
            sendPc, sendReq, sendTrace, sendResult>>

\* what the handlers of the gateway host do not touch
tokVars == <<retry, accessToken, accessTokenExpiry, tokenCalls, cardCall>>

chatVars == <<chatState, chatReturn>>

\* further fields of the host, which only the specifications of their own
\* handlers follow
hostVars == <<chatMessages, hostFields>>

panelVars == <<registry, panels, dispatch>>

sweepVars == <<accountPc, cleanupIntervalId, intervals, intervalsMade>>

restVars == <<hostVars, panelVars, sweepVars>>

extVars == <<seqVars, apprVars, dtVars, tokVars, chatVars, restVars>>

vars == <<healVars, extVars>>

(***************************************************************************)
(* i18n: tp(key, params) formats a message from its key and parameters.    *)
(***************************************************************************)
EventGapError(i) == <<"app.errors.eventGap", ToString(i.expected), ToString(i.received)>>

DisconnectedError(code, reason) ==
  <<"app.errors.disconnected", ToString(code),
    IF reason = "" THEN "app.errors.noReason" ELSE reason>>

ChatHistoryError == <<"Error: chat.history failed">>
ChatSendError == <<"Error: chat.send failed">>
ChatEventError == <<"chat error">>
ChatAbortError == <<"Error: chat.abort failed">>

\* [a, b, ...].slice(0, n)
Slice(s, n) == IF Len(s) <= n THEN s ELSE SubSeq(s, 1, n)

EVENT_LOG_CAP == 250

\* recordLocalEvent(host, event, payload)
RecordLocalEvent(log, event, payload) ==
  Slice(<<[event |-> event, payload |-> payload]>> \o log, EVENT_LOG_CAP)

NoTasks == [t \in TaskNames |-> "none"]

\* host.gapRecovery before its first use (undefined)
NoGapRecovery == [defined |-> FALSE, lastAttemptAt |-> NegInf, inFlight |-> FALSE]
NoInfo == [expected |-> 0, received |-> 0]
NoGap == [seen |-> FALSE, at |-> 0, info |-> NoInfo, prevStart |-> NegInf,
          open |-> FALSE, wasConnected |-> FALSE, started |-> FALSE,
          errAtGap |-> Null]
NoBatch == [seen |-> FALSE, results |-> NoTasks, prevError |-> Null, info |-> NoInfo,
            errBefore |-> Null, errAfter |-> Null]

Pending(ts) == {t \in TaskNames : ts[t] = "pending"}
Rejected(ts) == {t \in TaskNames : ts[t] = "rejected"}
Started(ts) == {t \in TaskNames : ts[t] # "none"}

\* connectGateway(host): the state in which the new client is started
InitHeal ==
  /\ now = 0
  /\ ticks = 0
  /\ gaps = 0
  /\ connected = FALSE
  /\ lastError = Null
  /\ chatRunId = NullId
  /\ gapRecovery = NoGapRecovery
  /\ tasks = NoTasks
  /\ prevError = Null
  /\ info = NoInfo
  /\ eventLogBuffer = <<>>
  /\ lastStart = NegInf
  /\ lastGap = NoGap
  /\ lastBatch = NoBatch

(***************************************************************************)
(* attemptGapSelfHeal                                                      *)
(***************************************************************************)
\* host.gapRecovery ??= { lastAttemptAt: -Infinity, inFlight: false }
GapState == [gapRecovery EXCEPT !.defined = TRUE]

\* a coordinator that takes no batch for unsettled
BatchInFlightNever(st) == FALSE

\* state.inFlight
BatchInFlight(st) == st.inFlight

\* a coordinator that never debounces
DebounceActiveNever(st, t) == FALSE

\* now - state.lastAttemptAt < GAP_SELF_HEAL_DEBOUNCE_MS
DebounceActive(st, t) ==
  st.lastAttemptAt # NegInf /\ t - st.lastAttemptAt < GAP_SELF_HEAL_DEBOUNCE_MS

\* a tasks array that always holds loadChatHistory
BatchTasksAlways(runId) == [t \in TaskNames |-> "pending"]

\* the tasks array: three refreshes, and loadChatHistory unless a run is in flight
BatchTasks(runId) ==
  [t \in TaskNames |->
     IF t = "loadChatHistory" /\ runId # NullId THEN "none" ELSE "pending"]

\* loadChatHistory up to its first await: state.lastError = null
HistoryPrefixError(err) == IF connected THEN Null ELSE err

\* the status with which a refresh settles, given the outcome of its request:
\* loadPresence and loadChatHistory catch the failure of their request
TaskStatus(t, ok) ==
  IF t \in {"loadPresence", "loadChatHistory"} THEN "fulfilled"
  ELSE IF ok THEN "fulfilled" ELSE "rejected"

\* what settling a refresh does to lastError: loadChatHistory's catch
SettleError(t, ok, err) ==
  IF t = "loadChatHistory" /\ ~ok THEN ChatHistoryError ELSE err

\* results.every((r) => r.status === "rejected") in place of some
HasHardFailureEvery(ts) == Rejected(ts) = Started(ts)

\* results.some((r) => r.status === "rejected")
HasHardFailure(ts) == Rejected(ts) # {}

\* the code after the await without the restoring of prevError
AfterBatchErrorNoRestore(ts, err, prev, i) ==
  IF HasHardFailure(ts)
  THEN IF err = Null THEN EventGapError(i) ELSE err
  ELSE err

\* the code after await Promise.allSettled(tasks)
AfterBatchError(ts, err, prev, i) ==
  IF HasHardFailure(ts)
  THEN IF err = Null THEN EventGapError(i) ELSE err
  ELSE IF prev # Null THEN prev ELSE err

\* attemptGapSelfHeal(host, info) up to await Promise.allSettled(tasks)
AttemptGapSelfHeal(i) ==
  IF ~connected
  THEN UNCHANGED <<gapRecovery, tasks, prevError, info, lastError, lastStart>>
  ELSE IF BatchInFlight(GapState) \/ DebounceActive(GapState, now)
  THEN /\ gapRecovery' = GapState
       /\ UNCHANGED <<tasks, prevError, info, lastError, lastStart>>
  ELSE /\ prevError' = lastError
       /\ info' = i
       /\ gapRecovery' = [defined |-> TRUE, lastAttemptAt |-> now, inFlight |-> TRUE]
       /\ tasks' = BatchTasks(chatRunId)
       /\ lastError' = IF chatRunId = NullId THEN HistoryPrefixError(lastError)
                       ELSE lastError
       /\ lastStart' = now

\* the onGap callback without its log entry: attemptGapSelfHeal(host, info)
GapSelfHeal(i) ==
  /\ gaps' = gaps + 1
  /\ AttemptGapSelfHeal(i)
  /\ lastGap' = [seen |-> TRUE, at |-> now, info |-> i, prevStart |-> lastStart,
                 open |-> Pending(tasks) # {}, wasConnected |-> connected,
                 started |-> tasks' # tasks, errAtGap |-> lastError]
  /\ lastBatch' = NoBatch

\* the client's onGap callback
OnGap(i) ==
  /\ gaps < MaxGaps
  /\ eventLogBuffer' = RecordLocalEvent(eventLogBuffer, "gateway.gap", i)
  /\ GapSelfHeal(i)
  /\ UNCHANGED <<now, ticks, connected, chatRunId>>
  /\ UNCHANGED extVars

\* one refresh of the batch settles; the last one to settle resumes
\* attemptGapSelfHeal after its await
SettleTaskHost(t, ok) ==
  /\ tasks[t] = "pending"
  /\ LET ts == [tasks EXCEPT ![t] = TaskStatus(t, ok)]
         err == SettleError(t, ok, lastError)
     IN IF Pending(ts) # {}
        THEN /\ tasks' = ts
             /\ lastError' = err
             /\ lastBatch' = NoBatch
             /\ UNCHANGED <<gapRecovery, prevError, info>>
        ELSE /\ tasks' = NoTasks
             /\ lastError' = AfterBatchError(ts, err, prevError, info)
             /\ gapRecovery' = [gapRecovery EXCEPT !.inFlight = FALSE]
             /\ prevError' = Null
             /\ info' = NoInfo
             /\ lastBatch' = [seen |-> TRUE, results |-> ts, prevError |-> prevError,
                              info |-> info, errBefore |-> err,
                              errAfter |-> lastError']
  /\ lastGap' = NoGap
  /\ UNCHANGED <<now, ticks, gaps, connected, chatRunId,
                 eventLogBuffer, lastStart>>

\* the same, the further fields of the host not being followed
SettleTask(t, ok) ==
  /\ SettleTaskHost(t, ok)
  /\ UNCHANGED extVars

(***************************************************************************)
(* The other handlers of the host that write lastError and chatRunId.      *)
(***************************************************************************)
\* the run ids of chat events; sendChatMessage generates the first of them
RunIds == {"r1", "r2"}
LocalRunIds == {"r1"}
CloseCodes == {1012, 1006}
\* close codes and reasons of the connection's specification
ConnCloseCodes == {1000, 1006, 1012}
CloseReasons == {"", "going away", "service restart"}
ChatStates == {"delta", "final", "aborted", "error"}

\* what every handler other than attemptGapSelfHeal leaves alone
\* what a handler outside the coordinator leaves of the coordinator's state
HealQuiet ==
  /\ lastGap' = NoGap
  /\ lastBatch' = NoBatch
  /\ UNCHANGED <<gaps, gapRecovery, tasks, prevError, info, eventLogBuffer, lastStart>>

OutsideHeal ==
  /\ HealQuiet
  /\ UNCHANGED extVars

\* Date.now() advances
Tick(d) ==
  /\ ticks < MaxTicks
  /\ ticks' = ticks + 1
  /\ now' = now + d
  /\ OutsideHeal
  /\ UNCHANGED <<connected, lastError, chatRunId>>

\* the current client's onHello
OnHello ==
  /\ ~connected
  /\ connected' = TRUE
  /\ lastError' = Null
  /\ chatRunId' = NullId
  /\ OutsideHeal
  /\ UNCHANGED <<now, ticks>>

\* a close that always shows as an error
IsSilentCloseNever(code) == FALSE

\* code 1012 (service restart) is expected and shows no error
IsSilentClose(code) == code = SERVICE_RESTART_CODE

\* the current client's onClose({code, reason})
OnClose(code, reason) ==
  /\ connected' = FALSE
  /\ lastError' = IF ~IsSilentClose(code) THEN DisconnectedError(code, reason)
                  ELSE lastError
  /\ OutsideHeal
  /\ UNCHANGED <<now, ticks, chatRunId>>

\* sendChatMessage(host, message): it clears lastError and sets chatRunId to
\* the new run; when the chat.send request fails it clears the run again and
\* reports the error
SendChatMessageHost(r, ok) ==
  /\ connected
  /\ lastError' = IF ok THEN Null ELSE ChatSendError
  /\ chatRunId' = IF ok THEN r ELSE NullId
  /\ HealQuiet
  /\ UNCHANGED <<now, ticks, connected>>

\* the same, the further fields of the host not being followed
SendChatMessage(r, ok) ==
  /\ SendChatMessageHost(r, ok)
  /\ UNCHANGED extVars

\* chatStream: null, or a text (the sequence of its characters)
NoStream == [defined |-> FALSE, text |-> <<>>]
Stream(text) == [defined |-> TRUE, text |-> text]

\* chatStreamStartedAt: null
NullTime == -1

\* extractText(payload.message): not a string, or a text
NoText == [isText |-> FALSE, text |-> <<>>]
ChatTexts == {<<>>, <<"a">>, <<"a", "b">>}
ChatMessages == {NoText} \cup {[isText |-> TRUE, text |-> x] : x \in ChatTexts}

SessionKeys == {"main", "other"}

\* payload.errorMessage, Null when it is missing
ErrorMessages == {Null, <<"run failed">>}

\* handleChatEvent called without a payload
NoPayload == [present |-> FALSE, runId |-> "", sessionKey |-> "", state |-> "",
              message |-> NoText, errorMessage |-> Null]

ChatEventPayloads ==
  {NoPayload} \cup
  [present : {TRUE}, runId : RunIds, sessionKey : SessionKeys, state : ChatStates,
   message : ChatMessages, errorMessage : ErrorMessages]

\* a handler that takes every run for its own
IsForeignRunNever(state, payload) == FALSE

\* payload.runId && state.chatRunId && payload.runId !== state.chatRunId
IsForeignRun(state, payload) ==
  /\ payload.runId # ""
  /\ state.chatRunId # NullId
  /\ payload.runId # state.chatRunId

\* the delta branch: the stream grows, or starts
AfterDelta(state, message) ==
  LET current == IF state.chatStream.defined THEN state.chatStream.text ELSE <<>>
  IN IF message.isText /\ (current = <<>> \/ Len(message.text) >= Len(current))
     THEN [state EXCEPT !.chatStream = Stream(message.text)]
     ELSE state

\* the final, aborted and error branches: the run is over
AfterRunEnd(state) ==
  [state EXCEPT !.chatStream = NoStream, !.chatRunId = NullId,
                !.chatStreamStartedAt = NullTime]

\* handleChatEvent(state, payload): the state it leaves and the value it returns
ChatEventOutcome(state, payload) ==
  IF ~payload.present THEN [state |-> state, value |-> NullId]
  ELSE IF payload.sessionKey # state.sessionKey THEN [state |-> state, value |-> NullId]
  ELSE IF IsForeignRun(state, payload)
  THEN [state |-> state,
        value |-> IF payload.state = "final" THEN "final" ELSE NullId]
  ELSE [state |->
          CASE payload.state = "delta" -> AfterDelta(state, payload.message)
            [] payload.state \in {"final", "aborted"} -> AfterRunEnd(state)
            [] payload.state = "error" ->
                 [AfterRunEnd(state) EXCEPT
                    !.lastError = IF payload.errorMessage # Null
                                  THEN payload.errorMessage ELSE ChatEventError]
            [] OTHER -> state,
        value |-> payload.state]

\* handleChatEvent(host, payload) for a payload of the host's session
HandleChatEvent(r, st) ==
  /\ connected
  /\ LET host == [sessionKey |-> "main", chatRunId |-> chatRunId,
                  chatStream |-> NoStream, chatStreamStartedAt |-> NullTime,
                  lastError |-> lastError]
         payload == [present |-> TRUE, runId |-> r, sessionKey |-> "main",
                     state |-> st, message |-> NoText, errorMessage |-> Null]
         after == ChatEventOutcome(host, payload).state
     IN /\ chatRunId' = after.chatRunId
        /\ lastError' = after.lastError
  /\ OutsideHeal
  /\ UNCHANGED <<now, ticks, connected>>

\* abortChatRun whose chat.abort request fails
AbortChatRunFailed ==
  /\ connected
  /\ chatRunId # NullId
  /\ lastError' = ChatAbortError
  /\ OutsideHeal
  /\ UNCHANGED <<now, ticks, connected, chatRunId>>

\* no frame has been sent on the connection; the handshake gave the first seq
InitSeq(first) ==
  /\ helloSeq = first
  /\ expectedSeq = first
  /\ serverSeq = first
  /\ delivered = <<>>

\* connectGateway(host): host.execApprovalQueue = [], host.execApprovalError = null
InitApproval ==
  /\ execApprovalQueue = <<>>
  /\ execApprovalError = Null
  /\ timers = <<>>
  /\ apprEvents = 0
  /\ apprEvent = NoApprEvent

Next ==
  \/ \E d \in TickSteps : Tick(d)
  \/ \E i \in GapInfos : OnGap(i)
  \/ \E t \in TaskNames, ok \in BOOLEAN : SettleTask(t, ok)
  \/ OnHello
  \/ \E c \in CloseCodes : connected /\ OnClose(c, "")
  \/ \E r \in LocalRunIds, ok \in BOOLEAN : SendChatMessage(r, ok)
  \/ \E r \in RunIds, st \in ChatStates : HandleChatEvent(r, st)
  \/ AbortChatRunFailed

(***************************************************************************)
(* The chat controller on one chat state (the host's or a panel's).        *)
(***************************************************************************)
\* the further fields of the host after construction
NoHello == [defined |-> FALSE]

Absent == [defined |-> FALSE, value |-> <<>>]
Given(v) == [defined |-> TRUE, value |-> v]

MainKey == <<"m", "a", "i", "n">>

\* the fields of a host whose sessionKey is key, connectGateway having run once
HostFields(key) ==
  [client |-> 1, hello |-> NoHello, chatStream |-> NoStream,
   chatStreamStartedAt |-> NullTime, presenceEntries |-> <<>>,
   debugHealth |-> Absent, sessionKey |-> key]

InitHost ==
  /\ chatMessages = <<>>
  /\ hostFields = HostFields(MainKey)

\* the chat panels and their registry
PanelIds == {"p1", "p2"}
PanelIndexes == {0, 1, 2}
NoPanel == "none"

\* a ChatState of a session
NewChatState(key) ==
  [sessionKey |-> key, chatRunId |-> NullId, chatStream |-> NoStream,
   chatStreamStartedAt |-> NullTime, lastError |-> Null]

\* no chat event in the last step
NoDispatch == [seen |-> FALSE, payload |-> NoPayload,
               applied |-> [p \in PanelIds |-> 0], host |-> 0,
               hostBefore |-> NewChatState("main")]

InitPanels ==
  /\ registry = [i \in PanelIndexes |-> NoPanel]
  /\ panels = [p \in PanelIds |->
                 [mounted |-> FALSE, panelIndex |-> 0,
                  chat |-> NewChatState("main")]]
  /\ dispatch = NoDispatch

\* the DingTalk accounts of the gateway
SweepAccounts == {"acc1", "acc2", "acc3"}

\* the module as it is loaded: no account started, let cleanupIntervalId = null
InitSweep ==
  /\ accountPc = [a \in SweepAccounts |-> "idle"]
  /\ cleanupIntervalId = 0
  /\ intervals = {}
  /\ intervalsMade = 0

InitRest == InitHost /\ InitPanels /\ InitSweep

NoChatReturn == [called |-> FALSE, payload |-> NoPayload, value |-> NullId]

InitChat ==
  /\ chatState = [sessionKey |-> "main", chatRunId |-> NullId,
                  chatStream |-> NoStream, chatStreamStartedAt |-> NullTime,
                  lastError |-> Null]
  /\ chatReturn = NoChatReturn

\* sendChatMessage up to its await of the chat.send request
ChatSendStart(r) ==
  /\ chatState' = [chatState EXCEPT !.lastError = Null, !.chatRunId = r,
                                    !.chatStream = Stream(<<>>),
                                    !.chatStreamStartedAt = now]
  /\ chatReturn' = NoChatReturn
  /\ UNCHANGED <<healVars, seqVars, apprVars, dtVars, tokVars, restVars>>

\* handleChatEvent(state, payload)
ChatEvent(payload) ==
  /\ chatState' = ChatEventOutcome(chatState, payload).state
  /\ chatReturn' = [called |-> TRUE, payload |-> payload,
                    value |-> ChatEventOutcome(chatState, payload).value]
  /\ UNCHANGED <<healVars, seqVars, apprVars, dtVars, tokVars, restVars>>

\* the amount by which Date.now() advances between two chat handlers
ChatTickSteps == {1000}

NextChat ==
  \/ \E r \in RunIds : ChatSendStart(r)
  \/ \E payload \in ChatEventPayloads : ChatEvent(payload)
  \/ \E d \in ChatTickSteps : Tick(d)

\* the host's connection and the handlers that write lastError
NextConn ==
  \/ OnHello
  \/ \E c \in ConnCloseCodes, reason \in CloseReasons : OnClose(c, reason)
  \/ \E r \in LocalRunIds, ok \in BOOLEAN : SendChatMessage(r, ok)
  \/ \E r \in RunIds, st \in ChatStates : HandleChatEvent(r, st)
  \/ AbortChatRunFailed
  \/ \E d \in TickSteps : Tick(d)

(***************************************************************************)
(* Self-heal next to the chat messages of the host.                        *)
(***************************************************************************)
\* res.messages of a chat.history response
HistoryResponses == {<<>>, <<"assistant">>}

HistoryTickSteps == {3001}

\* sendChatMessage with the messages it appends: the user's, and the error
\* message of its catch block
SendChat(r, ok) ==
  /\ SendChatMessageHost(r, ok)
  /\ chatMessages' = IF ok THEN Append(chatMessages, "user")
                     ELSE Append(Append(chatMessages, "user"), "assistant")
  /\ hostFields' = IF ok
                   THEN [hostFields EXCEPT !.chatStream = Stream(<<>>),
                                           !.chatStreamStartedAt = now]
                   ELSE [hostFields EXCEPT !.chatStream = NoStream,
                                           !.chatStreamStartedAt = NullTime]
  /\ UNCHANGED <<seqVars, apprVars, dtVars, tokVars, chatVars, panelVars, sweepVars>>

\* a refresh settles; loadChatHistory writes the messages of its response
SettleRefresh(t, ok, messages) ==
  /\ SettleTaskHost(t, ok)
  /\ chatMessages' = IF t = "loadChatHistory" /\ ok THEN messages ELSE chatMessages
  /\ UNCHANGED <<seqVars, apprVars, dtVars, tokVars, chatVars, hostFields>>
  /\ UNCHANGED <<panelVars, sweepVars>>

NextHistory ==
  \/ \E d \in HistoryTickSteps : Tick(d)
  \/ \E i \in GapInfos : OnGap(i)
  \/ \E t \in TaskNames, ok \in BOOLEAN, messages \in HistoryResponses :
       SettleRefresh(t, ok, messages)
  \/ OnHello
  \/ \E r \in LocalRunIds, ok \in BOOLEAN :
       Len(chatMessages) < MaxMessages /\ SendChat(r, ok)
  \/ \E r \in RunIds, st \in ChatStates : HandleChatEvent(r, st)

(***************************************************************************)
(* One connection: event frames, gap detection, onGap and onEvent.         *)
(***************************************************************************)
\* the event frame the server sends with seq n
Frame(n) == [event |-> "health", payload |-> [seq |-> n], seq |-> n]

\* the client's test of a frame's seq against expectedSeq
IsGap(seq, expected) == seq # expected

\* handleGatewayEventUnsafe(host, evt) with the frame dropped
HandleGatewayEventLogDrop(log, evt) == log

\* handleGatewayEventUnsafe(host, evt): the frame goes to the head of the log
HandleGatewayEventLog(log, evt) ==
  Slice(<<[event |-> evt.event, payload |-> evt.payload]>> \o log, EVENT_LOG_CAP)

\* the server's next frame is lost before it reaches the client
DropFrame ==
  /\ connected
  /\ serverSeq - helloSeq < MaxFrames
  /\ serverSeq' = serverSeq + 1
  /\ lastGap' = NoGap
  /\ lastBatch' = NoBatch
  /\ UNCHANGED <<expectedSeq, helloSeq, delivered>>
  /\ UNCHANGED <<now, ticks, connected, lastError, chatRunId, gaps, gapRecovery,
                 tasks, prevError, info, eventLogBuffer, lastStart>>
  /\ UNCHANGED <<apprVars, dtVars, tokVars, chatVars, restVars>>

\* the server's next frame reaches the client: the client compares its seq
\* with expectedSeq, calls onGap when they differ, and calls onEvent
ReceiveFrame ==
  /\ connected
  /\ serverSeq - helloSeq < MaxFrames
  /\ serverSeq' = serverSeq + 1
  /\ LET evt == Frame(serverSeq)
         i == [expected |-> expectedSeq, received |-> evt.seq]
         gap == IsGap(evt.seq, expectedSeq)
         log == IF gap THEN RecordLocalEvent(eventLogBuffer, "gateway.gap", i)
                       ELSE eventLogBuffer
     IN /\ expectedSeq' = evt.seq + 1
        /\ delivered' = Append(delivered, evt.seq)
        /\ eventLogBuffer' = HandleGatewayEventLog(log, evt)
        /\ IF gap
           THEN GapSelfHeal(i)
           ELSE /\ lastGap' = NoGap
                /\ lastBatch' = NoBatch
                /\ UNCHANGED <<gaps, gapRecovery, tasks, prevError, info,
                               lastError, lastStart>>
  /\ UNCHANGED <<now, ticks, connected, chatRunId, helloSeq>>
  /\ UNCHANGED <<apprVars, dtVars, tokVars, chatVars, restVars>>

NextSeq ==
  \/ OnHello
  \/ DropFrame
  \/ ReceiveFrame
  \/ \E t \in TaskNames, ok \in BOOLEAN : SettleTask(t, ok)
  \/ \E d \in TickSteps : Tick(d)


(***************************************************************************)
(* The exec-approval queue.                                                *)
(***************************************************************************)
Max(a, b) == IF a >= b THEN a ELSE b

\* the ids of the entries of a queue
QueueIds(q) == {q[k].id : k \in 1..Len(q)}

\* addExecApproval(queue, entry): the ticket is enqueued
AddExecApproval(q, entry) == Append(q, entry)

\* removeExecApproval(queue, id): removing an absent id is a no-op
RemoveExecApproval(q, id) == SelectSeq(q, LAMBDA e : e.id # id)

\* parseExecApprovalRequested / parseExecApprovalResolved: null for a payload
\* without an id
ParsedOk(payload) == payload.id # NullId

\* payloads of exec.approval.requested events that arrive at time t
RequestedPayloads(t) ==
  {[id |-> a, expiresAtMs |-> t + off] : a \in ApprovalIds, off \in ExpiryOffsets}
  \cup {[id |-> NullId, expiresAtMs |-> 0]}

\* a timer without the grace period
ApprovalDelayNoGrace(expiresAtMs, t) == Max(0, expiresAtMs - t)

\* Math.max(0, entry.expiresAtMs - Date.now() + 500)
ApprovalDelay(expiresAtMs, t) == Max(0, expiresAtMs - t + 500)

\* the handler of an exec.approval.requested event
ExecApprovalRequested(payload) ==
  /\ connected
  /\ apprEvents < MaxApprovalEvents
  /\ apprEvents' = apprEvents + 1
  /\ eventLogBuffer' = HandleGatewayEventLog(eventLogBuffer,
                          [event |-> "exec.approval.requested", payload |-> payload])
  /\ IF ParsedOk(payload)
     THEN /\ execApprovalQueue' = AddExecApproval(execApprovalQueue, payload)
          /\ execApprovalError' = Null
          /\ timers' = Append(timers,
                 [id |-> payload.id,
                  due |-> now + ApprovalDelay(payload.expiresAtMs, now)])
          /\ apprEvent' = [kind |-> "requested", id |-> payload.id]
     ELSE /\ apprEvent' = NoApprEvent
          /\ UNCHANGED <<execApprovalQueue, execApprovalError, timers>>
  /\ lastGap' = NoGap
  /\ lastBatch' = NoBatch
  /\ UNCHANGED <<now, ticks, connected, lastError, chatRunId, gaps, gapRecovery,
                 tasks, prevError, info, lastStart>>
  /\ UNCHANGED <<seqVars, dtVars, tokVars, chatVars, restVars>>

\* a resolved event that leaves the queue as it is
AfterResolvedKept(q, payload) == q

\* the queue after an exec.approval.resolved event: the ticket is removed if
\* the payload parses
AfterResolved(q, payload) ==
  IF ParsedOk(payload) THEN RemoveExecApproval(q, payload.id) ELSE q

\* the handler of an exec.approval.resolved event
ExecApprovalResolved(payload) ==
  /\ connected
  /\ apprEvents < MaxApprovalEvents
  /\ apprEvents' = apprEvents + 1
  /\ eventLogBuffer' = HandleGatewayEventLog(eventLogBuffer,
                          [event |-> "exec.approval.resolved", payload |-> payload])
  /\ execApprovalQueue' = AfterResolved(execApprovalQueue, payload)
  /\ apprEvent' = IF ParsedOk(payload)
                  THEN [kind |-> "resolved", id |-> payload.id]
                  ELSE NoApprEvent
  /\ lastGap' = NoGap
  /\ lastBatch' = NoBatch
  /\ UNCHANGED <<execApprovalError, timers>>
  /\ UNCHANGED <<now, ticks, connected, lastError, chatRunId, gaps, gapRecovery,
                 tasks, prevError, info, lastStart>>
  /\ UNCHANGED <<seqVars, dtVars, tokVars, chatVars, restVars>>

\* the timer that is due first; of timers due at the same time, the oldest
FirstDue(k) ==
  \A j \in 1..Len(timers) :
    j # k => \/ timers[j].due > timers[k].due
             \/ (timers[j].due = timers[k].due /\ j > k)

\* timers without the k-th
WithoutTimer(k) == SubSeq(timers, 1, k - 1) \o SubSeq(timers, k + 1, Len(timers))

\* the callback of a timer runs, once its delay has passed
ExpiryTimer(k) ==
  /\ k \in 1..Len(timers)
  /\ timers[k].due <= now
  /\ FirstDue(k)
  /\ execApprovalQueue' = RemoveExecApproval(execApprovalQueue, timers[k].id)
  /\ timers' = WithoutTimer(k)
  /\ apprEvent' = [kind |-> "timer", id |-> timers[k].id]
  /\ lastGap' = NoGap
  /\ lastBatch' = NoBatch
  /\ UNCHANGED <<execApprovalError, apprEvents>>
  /\ UNCHANGED <<now, ticks, connected, lastError, chatRunId, gaps, gapRecovery,
                 tasks, prevError, info, eventLogBuffer, lastStart>>
  /\ UNCHANGED <<seqVars, dtVars, tokVars, chatVars, restVars>>

\* connectGateway(host) on a host that had a connection: the state of the
\* host is reset, the timers of the old connection stay pending
ConnectGateway ==
  /\ connected
  /\ lastError' = Null
  /\ connected' = FALSE
  /\ execApprovalQueue' = <<>>
  /\ execApprovalError' = Null
  /\ apprEvent' = [kind |-> "reset", id |-> NullId]
  /\ \E first \in FirstSeqs :
       /\ helloSeq' = first
       /\ expectedSeq' = first
       /\ serverSeq' = first
       /\ delivered' = <<>>
  /\ lastGap' = NoGap
  /\ lastBatch' = NoBatch
  /\ UNCHANGED <<timers, apprEvents>>
  /\ UNCHANGED <<now, ticks, chatRunId, gaps, gapRecovery, tasks, prevError, info,
                 eventLogBuffer, lastStart>>
  /\ UNCHANGED <<dtVars, tokVars, chatVars, restVars>>

NextApproval ==
  \/ OnHello
  \/ \E p \in RequestedPayloads(now) : ExecApprovalRequested(p)
  \/ \E a \in ApprovalIds \cup {NullId} : ExecApprovalResolved([id |-> a])
  \/ \E k \in 1..MaxApprovalEvents : ExpiryTimer(k)
  \/ ConnectGateway
  \/ \E d \in ApprovalTickSteps : Tick(d)

(***************************************************************************)
(* DingTalk plugin: strings.  A string is the sequence of its characters.  *)
(***************************************************************************)
\* undefined, for a string
Undefined == <<"undefined">>

UpperCase == {"A", "D", "G", "I", "K", "L", "N", "T", "U"}

LowerChar(c) ==
  CASE c = "A" -> "a" [] c = "D" -> "d" [] c = "G" -> "g" [] c = "I" -> "i"
    [] c = "K" -> "k" [] c = "L" -> "l" [] c = "N" -> "n" [] c = "T" -> "t"
    [] c = "U" -> "u" [] OTHER -> c

\* value.toLowerCase()
ToLowerCase(str) == [k \in 1..Len(str) |-> LowerChar(str[k])]

RECURSIVE TrimStart(_)
TrimStart(str) ==
  IF str # <<>> /\ Head(str) = " " THEN TrimStart(Tail(str)) ELSE str

RECURSIVE TrimEnd(_)
TrimEnd(str) ==
  IF str # <<>> /\ str[Len(str)] = " "
  THEN TrimEnd(SubSeq(str, 1, Len(str) - 1))
  ELSE str

\* value.trim()
Trim(str) == TrimEnd(TrimStart(str))

\* the alternatives of /^(dingtalk|dd|ding):/i, in the order the regex tries them
ChannelPrefixes ==
  << <<"d", "i", "n", "g", "t", "a", "l", "k", ":">>,
     <<"d", "d", ":">>,
     <<"d", "i", "n", "g", ":">> >>

\* the regex matches the prefix pre at the start of str, ignoring case
MatchesPrefix(str, pre) ==
  Len(str) >= Len(pre) /\ ToLowerCase(SubSeq(str, 1, Len(pre))) = pre

\* value.replace(/^(dingtalk|dd|ding):/i, "")
StripChannelPrefix(str) ==
  IF \E k \in 1..Len(ChannelPrefixes) : MatchesPrefix(str, ChannelPrefixes[k])
  THEN LET k == CHOOSE j \in 1..Len(ChannelPrefixes) :
                  /\ MatchesPrefix(str, ChannelPrefixes[j])
                  /\ \A l \in 1..(j - 1) : ~MatchesPrefix(str, ChannelPrefixes[l])
       IN SubSeq(str, Len(ChannelPrefixes[k]) + 1, Len(str))
  ELSE str

\* list.map((value) => value.trim())
TrimAll(list) == [k \in 1..Len(list) |-> Trim(list[k])]

\* list.map((value) => value.replace(/^(dingtalk|dd|ding):/i, ""))
StripAll(list) == [k \in 1..Len(list) |-> StripChannelPrefix(list[k])]

\* list.map((value) => value.toLowerCase())
LowerAll(list) == [k \in 1..Len(list) |-> ToLowerCase(list[k])]

\* array.includes(x)
Includes(list, x) == \E k \in 1..Len(list) : list[k] = x

(***************************************************************************)
(* DingTalk plugin: the allowlist.                                         *)
(***************************************************************************)
Wildcard == <<"*">>
NotBlank(str) == str # <<>>
NotWildcard(str) == str # Wildcard

\* normalizeAllowFrom(list)
NormalizeAllowFrom(list) ==
  LET entries == SelectSeq(TrimAll(list), NotBlank)
      normalized == StripAll(SelectSeq(entries, NotWildcard))
  IN [entries |-> normalized,
      entriesLower |-> LowerAll(normalized),
      hasWildcard |-> Includes(entries, Wildcard),
      hasEntries |-> Len(entries) > 0]

\* isSenderAllowed({allow, senderId})
IsSenderAllowed(allow, senderId) ==
  IF ~allow.hasEntries THEN TRUE
  ELSE IF allow.hasWildcard THEN TRUE
  ELSE IF senderId # Undefined /\ senderId # <<>>
          /\ Includes(allow.entriesLower, ToLowerCase(senderId))
  THEN TRUE
  ELSE FALSE

(***************************************************************************)
(* DingTalk plugin: configuration, inbound messages, the webhook cache.    *)
(***************************************************************************)
U1 == <<"u", "1">>
U1Upper == <<"U", "1">>
DdU1 == <<"d", "d", ":", "u", "1">>
DingU1 == <<"D", "i", "n", "g", ":", "U", "1">>
DingTalkU1 == <<"d", "i", "n", "g", "t", "a", "l", "k", ":", "u", "1">>
PaddedU1 == <<" ", "u", "1", " ">>
U2 == <<"u", "2">>
DdU2 == <<"D", "D", ":", "u", "2">>
Blank == <<" ">>
Bot == <<"b", "o", "t">>
Cid1 == <<"c", "i", "d", "1">>
Work == <<"w", "k">>
Default == <<"d", "e", "f", "a", "u", "l", "t">>

\* values of channels.dingtalk.allowFrom
AllowLists ==
  { <<>>, <<U1>>, <<U1Upper>>, <<DdU1>>, <<DingU1>>, <<DingTalkU1>>, <<PaddedU1>>,
    <<Blank>>, <<Wildcard>>, <<U1, DdU2>>, <<Wildcard, U1>> }

\* values of channels.dingtalk.dmPolicy; "" is an unset policy
DmPolicies == {"", "open", "pairing", "allowlist"}

SESSION_WEBHOOK_DEFAULT_TTL_MS == 6 * 60 * 60 * 1000

\* accountId of a call
AccountIds == {Undefined, Work}

\* data.senderStaffId and data.senderId of an inbound message
StaffIds == {Undefined, U1, U1Upper, DdU1, DingTalkU1, U2, Bot}
PlatformIds == {U2, Bot}
SessionWebhooks == {"wh1", "wh2"}

InboundData ==
  [senderId : PlatformIds, senderStaffId : StaffIds, chatbotUserId : {Bot},
   conversationType : {"1", "2"}, conversationId : {Cid1},
   sessionWebhook : SessionWebhooks]

NoData == [senderId |-> Undefined, senderStaffId |-> Undefined,
           chatbotUserId |-> Undefined, conversationType |-> "",
           conversationId |-> Undefined, sessionWebhook |-> ""]
NoInbound == [seen |-> FALSE, accountId |-> Undefined, data |-> NoData,
              effects |-> {}, replies |-> <<>>]

\* a || b for strings
OrElse(a, b) == IF a # Undefined /\ a # <<>> THEN a ELSE b

\* resolveSessionWebhookCacheKey({accountId, to})
ResolveSessionWebhookCacheKey(accountId, to) ==
  (IF accountId = Undefined THEN Default ELSE accountId) \o <<":">> \o to

\* a ttl of 0 taken for no ttl
CacheTtlPositive(ttlMs) ==
  IF ttlMs > 0 THEN ttlMs ELSE SESSION_WEBHOOK_DEFAULT_TTL_MS

\* the ttl that cacheSessionWebhook uses
CacheTtl(ttlMs) == IF ttlMs >= 0 THEN ttlMs ELSE SESSION_WEBHOOK_DEFAULT_TTL_MS

\* cache.set(key, entry)
MapSet(cache, key, entry) ==
  [k \in DOMAIN cache \cup {key} |-> IF k = key THEN entry ELSE cache[k]]

\* cache.delete(key)
MapDelete(cache, key) == [k \in DOMAIN cache \ {key} |-> cache[k]]

\* cacheSessionWebhook({accountId, to, sessionWebhook, senderId, isDirect, ttlMs})
CacheSessionWebhook(cache, accountId, to, sessionWebhook, senderId, isDirect, ttlMs) ==
  IF sessionWebhook = "" THEN cache
  ELSE IF CacheTtl(ttlMs) = 0 THEN cache
  ELSE MapSet(cache, ResolveSessionWebhookCacheKey(accountId, to),
              [sessionWebhook |-> sessionWebhook, senderId |-> senderId,
               isDirect |-> isDirect, expiresAt |-> now + CacheTtl(ttlMs),
               lastSeenAt |-> now])

\* an entry that is still good at the moment it expires
IsExpiredLate(entry, t) == t > entry.expiresAt

\* Date.now() >= entry.expiresAt
IsExpired(entry, t) == t >= entry.expiresAt

\* getCachedSessionWebhook({accountId, to}): does it return an entry
HasCachedSessionWebhook(cache, accountId, to) ==
  LET key == ResolveSessionWebhookCacheKey(accountId, to)
  IN key \in DOMAIN cache /\ ~IsExpired(cache[key], now)

\* getCachedSessionWebhook({accountId, to}): the cache after the lookup
CacheAfterLookup(cache, accountId, to) ==
  LET key == ResolveSessionWebhookCacheKey(accountId, to)
  IN IF key \in DOMAIN cache /\ IsExpired(cache[key], now)
     THEN MapDelete(cache, key)
     ELSE cache

\* cleanupSessionWebhookCache()
CacheAfterCleanup(cache) ==
  [k \in {j \in DOMAIN cache : ~IsExpired(cache[j], now)} |-> cache[k]]

\* an empty Map
EmptyMap == [k \in {} |-> NoData]

NoError == [kind |-> "none", fields |-> {}, value |-> "", proactive |-> "",
            fallback |-> ""]

\* error: <payload>
PayloadError(payload) ==
  [kind |-> "payload", fields |-> {}, value |-> payload, proactive |-> "",
   fallback |-> ""]

\* error: { proactive, fallback }
BothError(proactive, fallback) ==
  [kind |-> "object", fields |-> {"proactive", "fallback"}, value |-> "",
   proactive |-> proactive, fallback |-> fallback]

NoResult == [returned |-> FALSE, ok |-> FALSE, data |-> "", error |-> NoError]
OkResult(data) == [returned |-> TRUE, ok |-> TRUE, data |-> data, error |-> NoError]
FailResult(error) == [returned |-> TRUE, ok |-> FALSE, data |-> "", error |-> error]

NoEntry == [present |-> FALSE, sessionWebhook |-> "", expiresAt |-> 0]
NoReq == [kind |-> "", accountId |-> Undefined, to |-> Undefined]
NoTrace == [proactiveCalls |-> 0, proactivePosts |-> 0, proactiveStatus |-> NoStatus,
            proactiveFailed |-> FALSE, proactive |-> "",
            failedAt |-> 0, cached |-> NoEntry, sessionCalls |-> 0,
            webhook |-> "", webhookPosts |-> 0, fallbackFailed |-> FALSE,
            fallback |-> ""]

\* a call of sendText / sendMedia that has returned is gone with the next step
AfterReturn ==
  IF sendPc = "done"
  THEN /\ sendPc' = "idle"
       /\ sendReq' = NoReq
       /\ sendTrace' = NoTrace
       /\ sendResult' = NoResult
  ELSE UNCHANGED <<sendPc, sendReq, sendTrace, sendResult>>

\* the dm policy in force: dingtalkConfig.dmPolicy || "open"
DmPolicy(config) == IF config.dmPolicy = "" THEN "open" ELSE config.dmPolicy

\* is the direct message of senderId blocked by the allowlist
IsBlocked(config, isDirect, senderId) ==
  /\ isDirect
  /\ DmPolicy(config) = "allowlist"
  /\ ~IsSenderAllowed(NormalizeAllowFrom(config.allowFrom), senderId)

\* the filter of the robot's own messages
IsSelfMessageSenderOnly(data) == data.senderId = data.chatbotUserId

\* data.senderId === data.chatbotUserId || data.senderStaffId === data.chatbotUserId
IsSelfMessage(data) ==
  data.senderId = data.chatbotUserId \/ data.senderStaffId = data.chatbotUserId

\* a denial that is sent again when it failed
DenialRepliesRetry(sessionWebhook, ok) ==
  IF ok
  THEN <<[text |-> "denied", webhook |-> sessionWebhook, ok |-> TRUE]>>
  ELSE <<[text |-> "denied", webhook |-> sessionWebhook, ok |-> FALSE],
         [text |-> "denied", webhook |-> sessionWebhook, ok |-> TRUE]>>

\* try { await sendBySession(dingtalkConfig, sessionWebhook, <denial>) } catch {}
DenialReplies(sessionWebhook, ok) ==
  <<[text |-> "denied", webhook |-> sessionWebhook, ok |-> ok]>>

\* the 'thinking' feedback, sent through the session webhook unless
\* showThinking is false (it is not set here); a failure is swallowed
ThinkingReplies(sessionWebhook, ok) ==
  <<[text |-> "thinking", webhook |-> sessionWebhook, ok |-> ok]>>

\* handleDingTalkMessage for a text message; denialOk and thinkingOk tell
\* whether the replies it sends through the message's session webhook arrive
HandleDingTalkMessage(accountId, data, denialOk, thinkingOk) ==
  /\ inbounds' = inbounds + 1
  /\ LET isDirect == data.conversationType = "1"
         senderId == OrElse(data.senderStaffId, data.senderId)
         to == IF isDirect THEN senderId ELSE data.conversationId
     IN IF IsSelfMessage(data)
        THEN /\ inbound' = [seen |-> TRUE, accountId |-> accountId, data |-> data,
                            effects |-> {}, replies |-> <<>>]
             /\ UNCHANGED sessionWebhookCache
        ELSE IF IsBlocked(dingtalkConfig, isDirect, senderId)
        THEN /\ inbound' = [seen |-> TRUE, accountId |-> accountId, data |-> data,
                            effects |-> IF denialOk THEN {"denied", "denialReply"}
                                        ELSE {"denied"},
                            replies |-> DenialReplies(data.sessionWebhook, denialOk)]
             /\ UNCHANGED sessionWebhookCache
        ELSE /\ sessionWebhookCache' =
                  CacheSessionWebhook(sessionWebhookCache, accountId, to,
                                      data.sessionWebhook, senderId, isDirect,
                                      dingtalkConfig.sessionWebhookCacheTtlMs)
             /\ inbound' = [seen |-> TRUE, accountId |-> accountId, data |-> data,
                            effects |-> {"routed", "recorded", "dispatched"}
                                        \cup (IF thinkingOk THEN {"thinking"} ELSE {}),
                            replies |-> ThinkingReplies(data.sessionWebhook, thinkingOk)]
  /\ AfterReturn
  /\ UNCHANGED dingtalkConfig
  /\ UNCHANGED <<healVars, seqVars, apprVars, tokVars, chatVars, restVars>>

(***************************************************************************)
(* DingTalk: retryWithBackoff.                                             *)
(***************************************************************************)
\* the HTTP statuses fn fails with
Statuses == {NoStatus, 400, 401, 404, 429, 500, 503}

BaseDelays == {100, 250}

RECURSIVE Pow2(_)
\* Math.pow(2, n)
Pow2(n) == IF n <= 0 THEN 1 ELSE 2 * Pow2(n - 1)

\* every error is taken for a transient one
IsRetryableAny(statusCode) == TRUE

\* statusCode === 401 || statusCode === 429 || (statusCode && statusCode >= 500)
IsRetryable(statusCode) ==
  \/ statusCode = 401
  \/ statusCode = 429
  \/ (statusCode # NoStatus /\ statusCode # 0 /\ statusCode >= 500)

\* what a call of fn settles with: a value or an error with a status
NoOutcome == [ok |-> FALSE, status |-> NoStatus, value |-> "none"]
FnValue(v) == [ok |-> TRUE, status |-> NoStatus, value |-> v]
FnError(statusCode) == [ok |-> FALSE, status |-> statusCode, value |-> "error"]
\* new Error("Retry exhausted without returning")
Exhausted == [ok |-> FALSE, status |-> NoStatus,
              value |-> "Retry exhausted without returning"]

FnOutcomes == {FnValue("value")} \cup {FnError(st) : st \in Statuses}

NoRetry == [pc |-> "idle", maxRetries |-> 0, baseDelayMs |-> 0, attempt |-> 0,
            calls |-> 0, delays |-> <<>>, errors |-> <<>>, result |-> NoOutcome]

\* the test of the for loop: attempt <= maxRetries, else the throw after it
RetryLoop(r) ==
  IF r.attempt <= r.maxRetries
  THEN [r EXCEPT !.pc = "call"]
  ELSE [r EXCEPT !.pc = "thrown", !.result = Exhausted]

\* retryWithBackoff(fn, {maxRetries, baseDelayMs}) up to its first await
RetryWithBackoff(maxRetries, baseDelayMs) ==
  RetryLoop([NoRetry EXCEPT !.maxRetries = maxRetries,
                            !.baseDelayMs = baseDelayMs, !.attempt = 1])

\* await fn() settles with outcome: the return, or the catch block
RetryAfterCall(r, outcome) ==
  LET called == [r EXCEPT !.calls = @ + 1]
      failed == [called EXCEPT !.errors = Append(@, outcome)]
  IN IF outcome.ok
     THEN [called EXCEPT !.pc = "returned", !.result = outcome]
     ELSE IF ~IsRetryable(outcome.status) \/ r.attempt = r.maxRetries
     THEN [failed EXCEPT !.pc = "thrown", !.result = outcome]
     ELSE [failed EXCEPT !.pc = "sleep",
                         !.delays = Append(@, r.baseDelayMs * Pow2(r.attempt - 1))]

\* the setTimeout of the backoff fires: attempt++ and the loop test
RetryAfterSleep(r) == RetryLoop([r EXCEPT !.attempt = @ + 1])

\* fn settles
FnSettles(outcome) ==
  /\ retry.pc = "call"
  /\ retry' = RetryAfterCall(retry, outcome)
  /\ UNCHANGED <<accessToken, accessTokenExpiry, tokenCalls, cardCall>>
  /\ UNCHANGED <<healVars, seqVars, apprVars, dtVars, chatVars, restVars>>

\* the backoff delay is over
RetryWakes ==
  /\ retry.pc = "sleep"
  /\ retry' = RetryAfterSleep(retry)
  /\ UNCHANGED <<accessToken, accessTokenExpiry, tokenCalls, cardCall>>
  /\ UNCHANGED <<healVars, seqVars, apprVars, dtVars, chatVars, restVars>>

NextRetry ==
  \/ \E outcome \in FnOutcomes : FnSettles(outcome)
  \/ RetryWakes

(***************************************************************************)
(* DingTalk: getAccessToken.                                               *)
(***************************************************************************)
\* the credentials of two accounts
TokenConfigs == {[clientId |-> "idA", clientSecret |-> "secretA"],
                 [clientId |-> "idB", clientSecret |-> "secretB"]}

\* the token the OAuth endpoint issues for an appKey
IssueToken(appKey) == IF appKey = "idA" THEN "tokenA" ELSE "tokenB"

\* response.data.expireIn, in seconds
EXPIRE_IN == 7200

\* a cached token is used while it stays valid for more than this
TOKEN_MARGIN_MS == 60000

\* what the token request fails with
TokenStatuses == {400, 500}

CallIds == {1, 2}

TokenTickSteps == {100, 7200000}

NoCall == [pc |-> "idle", config |-> [clientId |-> "", clientSecret |-> ""],
           now |-> 0, retry |-> NoRetry, result |-> NoOutcome]

NoCard == [pc |-> "idle", config |-> [clientId |-> "", clientSecret |-> ""],
           token |-> NullId, tokenCall |-> 0, retry |-> NoRetry,
           attempts |-> <<>>, result |-> NoOutcome]

InitToken ==
  /\ retry = NoRetry
  /\ accessToken = NullId
  /\ accessTokenExpiry = 0
  /\ tokenCalls = [c \in CallIds |-> NoCall]
  /\ cardCall = NoCard

\* getAccessToken(config) up to its first await, or to its return
GetAccessTokenCall(c, config) ==
  /\ tokenCalls[c].pc = "idle"
  /\ IF accessToken # NullId /\ accessTokenExpiry > now + TOKEN_MARGIN_MS
     THEN tokenCalls' = [tokenCalls EXCEPT ![c] =
            [NoCall EXCEPT !.pc = "done", !.config = config, !.now = now,
                           !.result = FnValue(accessToken)]]
     ELSE tokenCalls' = [tokenCalls EXCEPT ![c] =
            [NoCall EXCEPT !.pc = "fetch", !.config = config, !.now = now,
                           !.retry = RetryWithBackoff(3, 100)]]

\* a getAccessToken call of its own
GetAccessToken(c, config) ==
  /\ GetAccessTokenCall(c, config)
  /\ UNCHANGED <<retry, accessToken, accessTokenExpiry, cardCall>>
  /\ UNCHANGED <<healVars, seqVars, apprVars, dtVars, chatVars, restVars>>

\* the call's retryWithBackoff has returned or thrown: so does getAccessToken
TokenCallAfter(call, r) ==
  IF r.pc \in {"returned", "thrown"}
  THEN [call EXCEPT !.pc = "done", !.retry = r, !.result = r.result]
  ELSE [call EXCEPT !.retry = r]

\* the token request of call c gets its response
TokenResponse(c) ==
  /\ tokenCalls[c].pc = "fetch"
  /\ tokenCalls[c].retry.pc = "call"
  /\ LET call == tokenCalls[c]
         token == IssueToken(call.config.clientId)
     IN /\ accessToken' = token
        /\ accessTokenExpiry' = call.now + EXPIRE_IN * 1000
        /\ tokenCalls' = [tokenCalls EXCEPT ![c] =
             TokenCallAfter(call, RetryAfterCall(call.retry, FnValue(accessToken')))]
  /\ UNCHANGED <<retry, cardCall>>
  /\ UNCHANGED <<healVars, seqVars, apprVars, dtVars, chatVars, restVars>>

\* the token request of call c fails
TokenRequestFails(c, statusCode) ==
  /\ tokenCalls[c].pc = "fetch"
  /\ tokenCalls[c].retry.pc = "call"
  /\ tokenCalls' = [tokenCalls EXCEPT ![c] =
       TokenCallAfter(@, RetryAfterCall(@.retry, FnError(statusCode)))]
  /\ UNCHANGED <<retry, accessToken, accessTokenExpiry, cardCall>>
  /\ UNCHANGED <<healVars, seqVars, apprVars, dtVars, chatVars, restVars>>

\* the backoff delay of call c is over
TokenRetryWakes(c) ==
  /\ tokenCalls[c].pc = "fetch"
  /\ tokenCalls[c].retry.pc = "sleep"
  /\ tokenCalls' = [tokenCalls EXCEPT ![c] =
       TokenCallAfter(@, RetryAfterSleep(@.retry))]
  /\ UNCHANGED <<retry, accessToken, accessTokenExpiry, cardCall>>
  /\ UNCHANGED <<healVars, seqVars, apprVars, dtVars, chatVars, restVars>>

NextToken ==
  \/ \E c \in CallIds, config \in TokenConfigs : GetAccessToken(c, config)
  \/ \E c \in CallIds : TokenResponse(c)
  \/ \E c \in CallIds, st \in TokenStatuses : TokenRequestFails(c, st)
  \/ \E c \in CallIds : TokenRetryWakes(c)
  \/ \E d \in TokenTickSteps : Tick(d)

(***************************************************************************)
(* DingTalk: sendInteractiveCard.                                          *)
(***************************************************************************)
\* the configs a card is sent with: the two accounts, and one without
\* robotCode and clientId
CardConfigs == TokenConfigs \cup {[clientId |-> "", clientSecret |-> ""]}

\* the statuses the card API answers with
CardStatuses == {200, 400, 401}

\* the getAccessToken call that sendInteractiveCard makes
CardCallId == 1

\* config.robotCode || config.clientId, robotCode not being configured
RobotCode(config) == config.clientId

\* sendInteractiveCard(config, ...) up to its first await
SendInteractiveCard(config) ==
  /\ cardCall.pc = "idle"
  /\ IF RobotCode(config) = ""
     THEN /\ cardCall' = [NoCard EXCEPT !.pc = "thrown", !.config = config]
          /\ UNCHANGED tokenCalls
     ELSE /\ GetAccessTokenCall(CardCallId, config)
          /\ cardCall' = [NoCard EXCEPT !.pc = "token", !.config = config,
                                         !.tokenCall = 1]
  /\ UNCHANGED <<retry, accessToken, accessTokenExpiry>>
  /\ UNCHANGED <<healVars, seqVars, apprVars, dtVars, chatVars, restVars>>

\* await getAccessToken(...) settles: the card request starts, with the token
\* in the closure of fn
CardTokenSettles ==
  /\ cardCall.pc = "token"
  /\ tokenCalls[CardCallId].pc = "done"
  /\ cardCall' =
       IF tokenCalls[CardCallId].result.ok
       THEN [cardCall EXCEPT !.pc = "post",
                             !.token = tokenCalls[CardCallId].result.value,
                             !.retry = RetryWithBackoff(3, 100)]
       ELSE [cardCall EXCEPT !.pc = "thrown",
                             !.result = tokenCalls[CardCallId].result]
  /\ UNCHANGED <<retry, accessToken, accessTokenExpiry, tokenCalls>>
  /\ UNCHANGED <<healVars, seqVars, apprVars, dtVars, chatVars, restVars>>

\* the card request was sent with the call's token and ...
CardAttempt(statusCode) ==
  [token |-> cardCall.token, tokenCall |-> cardCall.tokenCall,
   status |-> statusCode]

\* sendInteractiveCard after its retryWithBackoff has returned or thrown
CardAfter(r) ==
  [cardCall EXCEPT !.pc = IF r.pc = "returned" THEN "done"
                          ELSE IF r.pc = "thrown" THEN "thrown" ELSE @,
                   !.retry = r,
                   !.result = r.result]

\* ... is answered with statusCode
CardResponse(statusCode) ==
  /\ cardCall.pc = "post"
  /\ cardCall.retry.pc = "call"
  /\ LET outcome == IF statusCode = 200 THEN FnValue("card")
                                        ELSE FnError(statusCode)
         after == CardAfter(RetryAfterCall(cardCall.retry, outcome))
     IN cardCall' = [after EXCEPT !.attempts = Append(@, CardAttempt(statusCode))]
  /\ UNCHANGED <<retry, accessToken, accessTokenExpiry, tokenCalls>>
  /\ UNCHANGED <<healVars, seqVars, apprVars, dtVars, chatVars, restVars>>

\* the backoff delay of the card request is over
CardRetryWakes ==
  /\ cardCall.pc = "post"
  /\ cardCall.retry.pc = "sleep"
  /\ cardCall' = CardAfter(RetryAfterSleep(cardCall.retry))
  /\ UNCHANGED <<retry, accessToken, accessTokenExpiry, tokenCalls>>
  /\ UNCHANGED <<healVars, seqVars, apprVars, dtVars, chatVars, restVars>>

NextCard ==
  \/ \E config \in CardConfigs : SendInteractiveCard(config)
  \/ \E c \in CallIds \ {CardCallId}, config \in TokenConfigs :
       GetAccessToken(c, config)
  \/ \E c \in CallIds : TokenResponse(c)
  \/ \E c \in CallIds, st \in TokenStatuses : TokenRequestFails(c, st)
  \/ \E c \in CallIds : TokenRetryWakes(c)
  \/ CardTokenSettles
  \/ \E st \in CardStatuses : CardResponse(st)
  \/ CardRetryWakes
  \/ \E d \in TokenTickSteps : Tick(d)

(***************************************************************************)
(* DingTalk plugin: outbound.sendText and outbound.sendMedia.              *)
(***************************************************************************)
\* the errors a request of the plugin fails with: response.data ("" when the
\* request got no response) and message
SendErrors ==
  {[data |-> "", message |-> "timeout", status |-> NoStatus],
   [data |-> "errbody", message |-> "Request failed with status code 400",
    status |-> 400],
   [data |-> "unavailable", message |-> "Request failed with status code 503",
    status |-> 503]}

\* the errors the post to a session webhook fails with
FallbackErrors == {err \in SendErrors : err.status \in {NoStatus, 400}}

\* err.response?.data || err.message
ErrorPayload(err) == IF err.data # "" THEN err.data ELSE err.message

SendKinds == {"text", "media"}
SendTargets == {U1, Cid1}

\* the entry of the cache for (accountId, to), as the trace records it
EntryOf(cache, accountId, to) ==
  LET key == ResolveSessionWebhookCacheKey(accountId, to)
  IN IF key \in DOMAIN cache
     THEN [present |-> TRUE, sessionWebhook |-> cache[key].sessionWebhook,
           expiresAt |-> cache[key].expiresAt]
     ELSE NoEntry

\* a fallback that must be switched on
FallbackEnabledStrict(config) == config.outboundFallbackToSessionWebhook = "true"

\* config.outboundFallbackToSessionWebhook !== false
FallbackEnabled(config) == config.outboundFallbackToSessionWebhook # "false"

\* sendText / sendMedia up to await sendProactiveMessage(...)
SendStart(kind, accountId, to) ==
  /\ sendPc \in {"idle", "done"}
  /\ sendReq' = [kind |-> kind, accountId |-> accountId, to |-> to]
  /\ IF kind = "media" /\ dingtalkConfig.clientId = ""
     THEN /\ sendPc' = "done"
          /\ sendTrace' = NoTrace
          /\ sendResult' = FailResult(PayloadError("DingTalk not configured"))
     ELSE /\ sendPc' = "proactive"
          /\ sendTrace' = [NoTrace EXCEPT !.proactiveCalls = 1]
          /\ sendResult' = NoResult
  /\ inbound' = NoInbound
  /\ UNCHANGED <<dingtalkConfig, sessionWebhookCache, inbounds>>
  /\ UNCHANGED <<healVars, seqVars, apprVars, tokVars, chatVars, restVars>>

\* sendProactiveMessage settles with success
ProactiveOk ==
  /\ sendPc = "proactive"
  /\ sendPc' = "done"
  /\ sendTrace' = [sendTrace EXCEPT !.proactivePosts = 1]
  /\ sendResult' = OkResult("sent")
  /\ inbound' = NoInbound
  /\ UNCHANGED <<dingtalkConfig, sessionWebhookCache, inbounds, sendReq>>
  /\ UNCHANGED <<healVars, seqVars, apprVars, tokVars, chatVars, restVars>>

\* sendProactiveMessage throws err, from its one POST to the OpenAPI (posted)
\* or from getAccessToken before it: the catch block up to await sendBySession
ProactiveFails(err, posted) ==
  /\ sendPc = "proactive"
  /\ LET payload == ErrorPayload(err)
         trace == [sendTrace EXCEPT
                     !.proactivePosts = IF posted THEN 1 ELSE 0,
                     !.proactiveStatus = err.status,
                     !.proactiveFailed = TRUE,
                     !.proactive = payload,
                     !.failedAt = now,
                     !.cached = EntryOf(sessionWebhookCache, sendReq.accountId,
                                        sendReq.to)]
     IN IF FallbackEnabled(dingtalkConfig)
        THEN /\ sessionWebhookCache' =
                  CacheAfterLookup(sessionWebhookCache, sendReq.accountId, sendReq.to)
             /\ IF HasCachedSessionWebhook(sessionWebhookCache, sendReq.accountId,
                                           sendReq.to)
                THEN /\ sendPc' = "fallback"
                     /\ sendTrace' = [trace EXCEPT
                                        !.sessionCalls = 1,
                                        !.webhook = trace.cached.sessionWebhook]
                     /\ sendResult' = NoResult
                ELSE /\ sendPc' = "done"
                     /\ sendTrace' = trace
                     /\ sendResult' = FailResult(PayloadError(payload))
        ELSE /\ sendPc' = "done"
             /\ sendTrace' = trace
             /\ sendResult' = FailResult(PayloadError(payload))
             /\ UNCHANGED sessionWebhookCache
  /\ inbound' = NoInbound
  /\ UNCHANGED <<dingtalkConfig, inbounds, sendReq>>
  /\ UNCHANGED <<healVars, seqVars, apprVars, tokVars, chatVars, restVars>>

\* the fallback's sendBySession settles with success
FallbackOk ==
  /\ sendPc = "fallback"
  /\ sendPc' = "done"
  /\ sendTrace' = [sendTrace EXCEPT !.webhookPosts = @ + 1]
  /\ sendResult' = OkResult("sent")
  /\ inbound' = NoInbound
  /\ UNCHANGED <<dingtalkConfig, sessionWebhookCache, inbounds, sendReq>>
  /\ UNCHANGED <<healVars, seqVars, apprVars, tokVars, chatVars, restVars>>

\* the fallback's sendBySession throws err, from its request to the webhook
\* (posted) or before it, from getAccessToken
FallbackFails(err, posted) ==
  /\ sendPc = "fallback"
  /\ sendPc' = "done"
  /\ sendTrace' = [sendTrace EXCEPT
                     !.webhookPosts = IF posted THEN @ + 1 ELSE @,
                     !.fallbackFailed = TRUE,
                     !.fallback = ErrorPayload(err)]
  /\ sendResult' = FailResult(BothError(sendTrace.proactive, ErrorPayload(err)))
  /\ inbound' = NoInbound
  /\ UNCHANGED <<dingtalkConfig, sessionWebhookCache, inbounds, sendReq>>
  /\ UNCHANGED <<healVars, seqVars, apprVars, tokVars, chatVars, restVars>>

\* the interval timer's cleanupSessionWebhookCache()
CleanupSessionWebhookCache ==
  /\ sessionWebhookCache' = CacheAfterCleanup(sessionWebhookCache)
  /\ sessionWebhookCache' # sessionWebhookCache
  /\ inbound' = NoInbound
  /\ AfterReturn
  /\ UNCHANGED <<dingtalkConfig, inbounds>>
  /\ UNCHANGED <<healVars, seqVars, apprVars, tokVars, chatVars, restVars>>

\* the plugin with its configuration, before any message
InitDingTalk(config) ==
  /\ dingtalkConfig = config
  /\ sessionWebhookCache = EmptyMap
  /\ inbounds = 0
  /\ inbound = NoInbound
  /\ sendPc = "idle"
  /\ sendReq = NoReq
  /\ sendTrace = NoTrace
  /\ sendResult = NoResult

DefaultConfig ==
  [dmPolicy |-> "", allowFrom |-> <<>>, outboundFallbackToSessionWebhook |-> "unset",
   sessionWebhookCacheTtlMs |-> -1, clientId |-> "id"]

\* configurations that differ in the direct-message policy
AuthConfigs ==
  {[DefaultConfig EXCEPT !.dmPolicy = p, !.allowFrom = l] :
     p \in DmPolicies, l \in AllowLists}

\* configurations that differ in what outbound delivery reads
OutboundConfigs ==
  {[DefaultConfig EXCEPT !.outboundFallbackToSessionWebhook = f,
                         !.sessionWebhookCacheTtlMs = t] :
     f \in {"unset", "false"}, t \in {0, 1000}}
  \cup {[DefaultConfig EXCEPT !.outboundFallbackToSessionWebhook = "true"],
        [DefaultConfig EXCEPT !.clientId = ""]}

NextAuth ==
  \E a \in AccountIds, d \in InboundData, denialOk \in BOOLEAN, thinkingOk \in BOOLEAN :
    /\ inbounds < MaxInbound
    /\ HandleDingTalkMessage(a, d, denialOk, thinkingOk)

\* the inbound messages of the outbound specification
OutboundInboundData ==
  {d \in InboundData : d.senderStaffId = U1 /\ d.senderId = U2}

\* the amounts by which Date.now() advances around the expiry of an entry
OutboundTickSteps == {500}

NextOutbound ==
  \/ \E d \in OutboundInboundData :
       /\ inbounds < MaxCached
       /\ HandleDingTalkMessage(Undefined, d, TRUE, TRUE)
  \/ \E k \in SendKinds, a \in AccountIds, to \in SendTargets : SendStart(k, a, to)
  \/ ProactiveOk
  \/ \E err \in SendErrors, posted \in BOOLEAN : ProactiveFails(err, posted)
  \/ FallbackOk
  \/ \E err \in FallbackErrors, posted \in BOOLEAN : FallbackFails(err, posted)
  \/ CleanupSessionWebhookCache
  \/ \E d \in OutboundTickSteps : Tick(d)

(***************************************************************************)
(* The chat panels, their registry, and the chat events of the gateway.    *)
(***************************************************************************)
\* the chat events of the gateway in this part
PanelPayloads ==
  {NoPayload} \cup
  [present : {TRUE}, runId : {"r1"}, sessionKey : SessionKeys,
   state : {"delta", "final"}, message : {[isText |-> TRUE, text |-> <<"a">>]},
   errorMessage : {Null}]

\* registerChatPanel(host): registry.set(host.panelIndex, host)
RegisterChatPanel(reg, p, idx) == [reg EXCEPT ![idx] = p]

\* the function registerChatPanel returns, called while host.panelIndex is idx
UnregisterPanel(reg, p, idx) ==
  IF reg[idx] = p THEN [reg EXCEPT ![idx] = NoPanel] ELSE reg

\* findChatPanelsBySessionKey(sessionKey): the entries of the Map it finds
FindChatPanelsBySessionKey(reg, ps, sessionKey) ==
  {i \in PanelIndexes : reg[i] # NoPanel /\ ps[reg[i]].chat.sessionKey = sessionKey}

\* handleChatEvent(state, payload) called n times on one state
RECURSIVE ApplyTimes(_, _, _)
ApplyTimes(state, payload, n) ==
  IF n = 0 THEN state
  ELSE ApplyTimes(ChatEventOutcome(state, payload).state, payload, n - 1)

\* a step of a panel or of the registry leaves the rest of the page alone
PanelQuiet ==
  /\ UNCHANGED <<seqVars, apprVars, dtVars, tokVars, hostVars, sweepVars, chatReturn>>
  /\ UNCHANGED <<now, ticks, gaps, connected, lastError, chatRunId, gapRecovery,
                 tasks, prevError, info, lastStart, lastGap, lastBatch>>

\* no other panel that is mounted has index idx
IndexFree(p, idx) ==
  \A q \in PanelIds \ {p} : panels[q].mounted => panels[q].panelIndex # idx

\* the panel is put on the page with its index and session: connectedCallback
MountPanel(p, idx, key) ==
  /\ ~panels[p].mounted
  /\ IndexFree(p, idx)
  /\ panels' = [panels EXCEPT ![p] = [mounted |-> TRUE, panelIndex |-> idx,
                                      chat |-> NewChatState(key)]]
  /\ registry' = RegisterChatPanel(registry, p, idx)
  /\ dispatch' = NoDispatch
  /\ UNCHANGED <<eventLogBuffer, chatState>>
  /\ PanelQuiet

\* the panel is taken off the page: disconnectedCallback
UnmountPanel(p) ==
  /\ panels[p].mounted
  /\ panels' = [panels EXCEPT ![p].mounted = FALSE]
  /\ registry' = UnregisterPanel(registry, p, panels[p].panelIndex)
  /\ dispatch' = NoDispatch
  /\ UNCHANGED <<eventLogBuffer, chatState>>
  /\ PanelQuiet

\* the panel's panelIndex property is set to idx; updated(changed) runs with
\* this.panelIndex = idx already
ChangePanelIndex(p, idx) ==
  /\ panels[p].mounted
  /\ panels[p].panelIndex # idx
  /\ IndexFree(p, idx)
  /\ panels' = [panels EXCEPT ![p].panelIndex = idx]
  /\ registry' = RegisterChatPanel(UnregisterPanel(registry, p, idx), p, idx)
  /\ dispatch' = NoDispatch
  /\ UNCHANGED <<eventLogBuffer, chatState>>
  /\ PanelQuiet

\* handleGatewayEventUnsafe(host, evt) for evt.event = "chat"
PanelChatEvent(payload) ==
  LET sessionKey == IF payload.present THEN payload.sessionKey ELSE ""
      found == IF sessionKey # ""
               THEN FindChatPanelsBySessionKey(registry, panels, sessionKey)
               ELSE {}
      times == [p \in PanelIds |-> Cardinality({i \in found : registry[i] = p})]
  IN /\ eventLogBuffer' = HandleGatewayEventLog(eventLogBuffer,
                             [event |-> "chat", payload |-> payload])
     /\ IF found # {}
        THEN /\ panels' = [p \in PanelIds |->
                             [panels[p] EXCEPT
                                !.chat = ApplyTimes(panels[p].chat, payload, times[p])]]
             /\ UNCHANGED chatState
             /\ dispatch' = [seen |-> TRUE, payload |-> payload, applied |-> times,
                             host |-> 0, hostBefore |-> chatState]
        ELSE /\ chatState' = ChatEventOutcome(chatState, payload).state
             /\ UNCHANGED panels
             /\ dispatch' = [seen |-> TRUE, payload |-> payload,
                             applied |-> [p \in PanelIds |-> 0], host |-> 1,
                             hostBefore |-> chatState]
     /\ UNCHANGED registry
     /\ PanelQuiet

NextPanels ==
  \/ \E p \in PanelIds, idx \in PanelIndexes, key \in SessionKeys :
       MountPanel(p, idx, key)
  \/ \E p \in PanelIds : UnmountPanel(p)
  \/ \E p \in PanelIds, idx \in PanelIndexes : ChangePanelIndex(p, idx)
  \/ \E payload \in PanelPayloads :
       Len(eventLogBuffer) < MaxGaps /\ PanelChatEvent(payload)

(***************************************************************************)
(* DingTalk plugin: gateway.startAccount and the cache sweep's timer.      *)
(***************************************************************************)
\* startCardCacheCleanup(): the id of the timer, and the timers scheduled
StartCardCacheCleanup ==
  IF cleanupIntervalId = 0
  THEN /\ cleanupIntervalId' = intervalsMade + 1
       /\ intervals' = intervals \cup {intervalsMade + 1}
       /\ intervalsMade' = intervalsMade + 1
  ELSE UNCHANGED <<cleanupIntervalId, intervals, intervalsMade>>

\* stopCardCacheCleanup()
StopCardCacheCleanup ==
  /\ cleanupIntervalId' = 0
  /\ intervals' = intervals \ {cleanupIntervalId}
  /\ UNCHANGED intervalsMade

SweepQuiet == UNCHANGED <<healVars, seqVars, apprVars, dtVars, tokVars, chatVars,
                          hostVars, panelVars>>

\* startAccount(ctx) up to await client.connect()
StartAccount(a) ==
  /\ accountPc[a] = "idle"
  /\ StartCardCacheCleanup
  /\ accountPc' = [accountPc EXCEPT ![a] = "connecting"]
  /\ SweepQuiet

\* client.connect() resolves: startAccount returns the account's stop(); or
\* it rejects and startAccount throws
AccountConnects(a, ok) ==
  /\ accountPc[a] = "connecting"
  /\ accountPc' = [accountPc EXCEPT ![a] = IF ok THEN "running" ELSE "failed"]
  /\ UNCHANGED <<cleanupIntervalId, intervals, intervalsMade>>
  /\ SweepQuiet

\* the account's stop(), not stopped before
StopAccount(a) ==
  /\ accountPc[a] = "running"
  /\ accountPc' = [accountPc EXCEPT ![a] = "stopped"]
  /\ StopCardCacheCleanup
  /\ SweepQuiet

\* the account's abort signal fires, the account not stopped before
AbortAccount(a) ==
  /\ accountPc[a] = "running"
  /\ accountPc' = [accountPc EXCEPT ![a] = "aborted"]
  /\ UNCHANGED <<cleanupIntervalId, intervals, intervalsMade>>
  /\ SweepQuiet

NextSweep ==
  \/ \E a \in SweepAccounts : StartAccount(a)
  \/ \E a \in SweepAccounts, ok \in BOOLEAN : AccountConnects(a, ok)
  \/ \E a \in SweepAccounts : StopAccount(a)
  \/ \E a \in SweepAccounts : AbortAccount(a)

(***************************************************************************)
(* connectGateway: the host and the clients it has created.                *)
(***************************************************************************)
\* at most this many clients are created
MaxClients == 2

AgentPrefix == <<"a", "g", "e", "n", "t", ":">>

\* `agent:${agentId}:${key}`
AgentKey(agentId, key) == AgentPrefix \o agentId \o <<":">> \o key

\* session defaults of a snapshot; an absent field is the empty string
NoDefaults == [defined |-> FALSE, defaultAgentId |-> <<>>, mainKey |-> <<>>,
               mainSessionKey |-> <<>>]

Hello(p, h, d) ==
  [defined |-> TRUE,
   snapshot |-> [presence |-> p, health |-> h, sessionDefaults |-> d]]

\* the hello frames of the handshake, with their snapshots: an empty one, a
\* full one, and two that hold a part
Hellos ==
  {Hello(Absent, Absent, NoDefaults),
   Hello(Given(<<"p1">>), Given("ok"),
         [defined |-> TRUE, defaultAgentId |-> <<"a">>, mainKey |-> <<>>,
          mainSessionKey |-> AgentKey(<<"a">>, MainKey)]),
   Hello(Given(<<"p1">>), Absent,
         [defined |-> TRUE, defaultAgentId |-> <<>>, mainKey |-> <<"w">>,
          mainSessionKey |-> <<" ", "g", " ">>]),
   Hello(Absent, Given("ok"),
         [defined |-> TRUE, defaultAgentId |-> <<>>, mainKey |-> <<>>,
          mainSessionKey |-> <<" ">>])}

\* host.sessionKey as the host was constructed
HostSessionKeys == {MainKey, <<"w">>, <<"c">>}

\* presence events
PresencePayloads == {Absent, Given(<<"p2">>)}

\* normalizeSessionKeyForDefaults(value, defaults)
NormalizeSessionKeyForDefaults(value, defaults) ==
  LET raw == Trim(value)
      mainSessionKey == Trim(defaults.mainSessionKey)
      mainKey == OrElse(Trim(defaults.mainKey), MainKey)
      defaultAgentId == Trim(defaults.defaultAgentId)
      isAlias == \/ raw = MainKey
                 \/ raw = mainKey
                 \/ /\ defaultAgentId # <<>>
                    /\ \/ raw = AgentKey(defaultAgentId, MainKey)
                       \/ raw = AgentKey(defaultAgentId, mainKey)
  IN IF mainSessionKey = <<>> THEN raw
     ELSE IF raw = <<>> THEN mainSessionKey
     ELSE IF isAlias THEN mainSessionKey ELSE raw

\* applySessionDefaults(host, defaults): host.sessionKey afterwards.  The
\* host's sessionKey is never blank, so that resolvedSessionKey is not
\* either and the settings do not enter into nextSessionKey.
ApplySessionDefaults(key, defaults) ==
  IF ~defaults.defined \/ defaults.mainSessionKey = <<>>
  THEN key
  ELSE OrElse(NormalizeSessionKeyForDefaults(key, defaults), key)

\* applySnapshot(host, hello)
ApplySnapshot(fields, hello) ==
  [fields EXCEPT
     !.presenceEntries = IF hello.snapshot.presence.defined
                         THEN hello.snapshot.presence.value ELSE @,
     !.debugHealth = IF hello.snapshot.health.defined
                     THEN hello.snapshot.health ELSE @,
     !.sessionKey = ApplySessionDefaults(@, hello.snapshot.sessionDefaults)]

\* an onHello that leaves the stream of the run before the disconnect
ResetChatStreamKept(fields) == fields

\* onHello: chatStream = null, chatStreamStartedAt = null
ResetChatStream(fields) ==
  [fields EXCEPT !.chatStream = NoStream, !.chatStreamStartedAt = NullTime]

\* what the callbacks of a client leave alone when they act on the host
ClientQuiet ==
  /\ UNCHANGED <<now, ticks, chatMessages>>
  /\ UNCHANGED <<seqVars, apprVars, dtVars, tokVars, chatVars, panelVars, sweepVars>>

\* connectGateway(host): the host is reset and gets a new client; the
\* previous client is stopped, the new one started
ConnectGatewayHost ==
  /\ hostFields.client < MaxClients
  /\ lastError' = Null
  /\ connected' = FALSE
  /\ hostFields' = [hostFields EXCEPT !.hello = NoHello, !.client = @ + 1]
  /\ execApprovalQueue' = <<>>
  /\ execApprovalError' = Null
  /\ apprEvent' = [kind |-> "reset", id |-> NullId]
  /\ HealQuiet
  /\ UNCHANGED <<now, ticks, chatRunId, chatMessages, timers, apprEvents>>
  /\ UNCHANGED <<seqVars, dtVars, tokVars, chatVars, panelVars, sweepVars>>

\* onHello of client c
ClientHello(c, hello) ==
  /\ c \in 1..hostFields.client
  /\ IF hostFields.client # c
     THEN UNCHANGED vars
     ELSE /\ connected' = TRUE
          /\ lastError' = Null
          /\ chatRunId' = NullId
          /\ hostFields' = ResetChatStream(
                              ApplySnapshot([hostFields EXCEPT !.hello = hello], hello))
          /\ HealQuiet
          /\ ClientQuiet

\* onClose of client c
ClientClose(c, code, reason) ==
  /\ c \in 1..hostFields.client
  /\ IF hostFields.client # c THEN UNCHANGED vars ELSE OnClose(code, reason)

\* onEvent of client c, the event being a presence event
ClientEvent(c, payload) ==
  /\ c \in 1..hostFields.client
  /\ IF hostFields.client # c
     THEN UNCHANGED vars
     ELSE /\ eventLogBuffer' = HandleGatewayEventLog(eventLogBuffer,
                                  [event |-> "presence", payload |-> payload])
          /\ hostFields' = IF payload.defined
                           THEN [hostFields EXCEPT !.presenceEntries = payload.value]
                           ELSE hostFields
          /\ lastGap' = NoGap
          /\ lastBatch' = NoBatch
          /\ UNCHANGED <<gaps, gapRecovery, tasks, prevError, info, lastStart>>
          /\ UNCHANGED <<connected, lastError, chatRunId>>
          /\ ClientQuiet

\* onGap of client c
ClientGap(c, i) ==
  /\ c \in 1..hostFields.client
  /\ OnGap(i)

\* the callbacks of the host's clients, the superseded ones among them
NextClient ==
  \/ ConnectGatewayHost
  \/ \E c \in 1..MaxClients, hello \in Hellos : ClientHello(c, hello)
  \/ \E c \in 1..MaxClients, code \in CloseCodes : ClientClose(c, code, "")
  \/ \E c \in 1..MaxClients, payload \in PresencePayloads :
       Len(eventLogBuffer) < MaxGaps /\ ClientEvent(c, payload)
  \/ \E c \in 1..MaxClients, i \in GapInfos : ClientGap(c, i)

\* reconnects of a host that has runs and approval tickets
NextHello ==
  \/ ConnectGatewayHost
  \/ \E c \in 1..MaxClients, hello \in Hellos : ClientHello(c, hello)
  \/ \E c \in 1..MaxClients, code \in CloseCodes : ClientClose(c, code, "")
  \/ \E r \in LocalRunIds, ok \in BOOLEAN :
       Len(chatMessages) < MaxMessages /\ SendChat(r, ok)
  \/ \E p \in RequestedPayloads(now) :
       execApprovalQueue = <<>> /\ p.expiresAtMs > now /\ ExecApprovalRequested(p)

(***************************************************************************)
(* The specifications.                                                     *)
(***************************************************************************)
\* the gateway host
Init ==
  /\ InitHeal /\ InitSeq(1) /\ InitApproval /\ InitDingTalk(DefaultConfig)
  /\ InitToken /\ InitChat /\ InitRest

Spec == Init /\ [][Next]_vars

\* one connection of the gateway client
InitSeqAny ==
  /\ InitHeal /\ InitApproval /\ InitDingTalk(DefaultConfig) /\ InitToken /\ InitChat /\ InitRest
  /\ \E first \in FirstSeqs : InitSeq(first)

SpecSeq == InitSeqAny /\ [][NextSeq]_vars

\* the exec-approval queue
SpecApproval == Init /\ [][NextApproval]_vars

\* the DingTalk inbound handler
InitAuth ==
  /\ InitHeal /\ InitSeq(1) /\ InitApproval /\ InitToken /\ InitChat /\ InitRest
  /\ \E config \in AuthConfigs : InitDingTalk(config)

SpecAuth == InitAuth /\ [][NextAuth]_vars

\* DingTalk outbound delivery
InitOutbound ==
  /\ InitHeal /\ InitSeq(1) /\ InitApproval /\ InitToken /\ InitChat /\ InitRest
  /\ \E config \in OutboundConfigs : InitDingTalk(config)

SpecOutbound == InitOutbound /\ [][NextOutbound]_vars

\* one retryWithBackoff call, fn settling each time it is called
InitRetry ==
  /\ InitHeal /\ InitSeq(1) /\ InitApproval /\ InitDingTalk(DefaultConfig)
  /\ accessToken = NullId
  /\ accessTokenExpiry = 0
  /\ tokenCalls = [c \in CallIds |-> NoCall]
  /\ cardCall = NoCard
  /\ InitChat /\ InitRest
  /\ \E maxRetries \in 0..MaxRetriesBound, baseDelayMs \in BaseDelays :
       retry = RetryWithBackoff(maxRetries, baseDelayMs)

SpecRetry == InitRetry /\ [][NextRetry]_vars /\ WF_vars(NextRetry)

\* getAccessToken calls of two accounts
SpecToken == Init /\ [][NextToken]_vars

\* one sendInteractiveCard call, and a getAccessToken call beside it
SpecCard == Init /\ [][NextCard]_vars

\* self-heal and the chat messages
SpecHistory == Init /\ [][NextHistory]_vars

\* the host and its clients
InitClient ==
  /\ InitHeal /\ InitSeq(1) /\ InitApproval /\ InitDingTalk(DefaultConfig)
  /\ InitToken /\ InitChat
  /\ chatMessages = <<>>
  /\ \E key \in HostSessionKeys : hostFields = HostFields(key)
  /\ InitPanels /\ InitSweep

SpecClient == InitClient /\ [][NextClient]_vars

\* the host across reconnects
SpecHello == InitClient /\ [][NextHello]_vars

\* the chat panels, their registry and the chat events routed to them
SpecPanels == Init /\ [][NextPanels]_vars

\* the DingTalk accounts and the timer of the cache sweep
SpecSweep == Init /\ [][NextSweep]_vars

\* the host's connection
SpecConn == Init /\ [][NextConn]_vars

\* chat events on one chat state
SpecChat == Init /\ [][NextChat]_vars

(***************************************************************************)
(* Properties of the self-heal coordinator.                                *)
(***************************************************************************)
BaseTasks == {"loadDebug", "loadPresence", "refreshActiveTab"}
Fulfilled(ts) == {t \in TaskNames : ts[t] = "fulfilled"}

\* C1: a gap that arrives less than 3000 ms after the start of the previous
\* batch starts no refresh; a gap that arrives on a connected host with no
\* batch in flight and more than 3000 ms after the start of the previous batch
\* (or before any batch) starts exactly one batch: loadDebug, loadPresence and
\* refreshActiveTab, and nothing but loadChatHistory besides.
C1_DebounceWindow ==
  lastGap.seen =>
    /\ (lastGap.prevStart # NegInf
          /\ lastGap.at - lastGap.prevStart < GAP_SELF_HEAL_DEBOUNCE_MS
        => ~lastGap.started)
    /\ (lastGap.wasConnected /\ ~lastGap.open
          /\ (lastGap.prevStart = NegInf
               \/ lastGap.at - lastGap.prevStart > GAP_SELF_HEAL_DEBOUNCE_MS)
        => lastGap.started)
    /\ (lastGap.started => BaseTasks \subseteq Pending(tasks) /\ lastStart = lastGap.at)
    /\ (~lastGap.started => lastStart = lastGap.prevStart)

\* a second batch has started, more than 3000 ms after the first
C1_Witness ==
  /\ lastGap.seen /\ lastGap.started
  /\ lastGap.prevStart # NegInf
  /\ lastGap.at - lastGap.prevStart > GAP_SELF_HEAL_DEBOUNCE_MS

\* C3 as amended: a batch with a rejected refresh is a failure even if other
\* refreshes of it fulfilled: the generic event-gap error is written when no
\* error is showing as the batch settles; a batch without a rejection writes
\* no generic error.
C3_AnyRejectionFails ==
  lastBatch.seen =>
    /\ (Rejected(lastBatch.results) # {} =>
          lastBatch.errAfter = IF lastBatch.errBefore = Null
                               THEN EventGapError(lastBatch.info)
                               ELSE lastBatch.errBefore)
    /\ (Rejected(lastBatch.results) = {} =>
          lastBatch.errAfter \in {lastBatch.errBefore, lastBatch.prevError})

\* a batch with a rejected and a fulfilled refresh wrote the generic error
C3_Witness ==
  /\ lastBatch.seen
  /\ Rejected(lastBatch.results) # {}
  /\ Fulfilled(lastBatch.results) # {}
  /\ lastBatch.errBefore = Null
  /\ lastBatch.errAfter = EventGapError(lastBatch.info)

\* C3 as stated: the generic event-gap error is written only when every
\* refresh of the batch rejected.
C3_Original ==
  (/\ lastBatch.seen
   /\ Rejected(lastBatch.results) # {}
   /\ lastBatch.errBefore = Null
   /\ lastBatch.errAfter = EventGapError(lastBatch.info))
  => Rejected(lastBatch.results) = Started(lastBatch.results)

\* C4: after a batch that ended in failure, an error that was showing when the
\* gap arrived is still in place, and the generic message is there only if no
\* error was showing when the gap arrived.
C4_PreexistingErrorKept ==
  (lastBatch.seen /\ Rejected(lastBatch.results) # {}) =>
    /\ (lastBatch.prevError # Null => lastBatch.errAfter = lastBatch.prevError)
    /\ (lastBatch.errBefore = Null /\ lastBatch.errAfter = EventGapError(lastBatch.info)
        => lastBatch.prevError = Null)

\* C5 as amended: after a batch without a rejection, an error that was showing
\* when the gap arrived is showing again, whatever the refreshes did to it;
\* if none was showing, the coordinator leaves lastError as the refreshes
\* left it.
C5_SuccessRestoresError ==
  (lastBatch.seen /\ Rejected(lastBatch.results) = {}) =>
    IF lastBatch.prevError # Null
    THEN lastBatch.errAfter = lastBatch.prevError
    ELSE lastBatch.errAfter = lastBatch.errBefore

\* a batch without a rejection put back the error that loadChatHistory cleared
C5_Witness ==
  /\ lastBatch.seen
  /\ Rejected(lastBatch.results) = {}
  /\ lastBatch.results["loadChatHistory"] = "fulfilled"
  /\ lastBatch.prevError # Null
  /\ lastBatch.errBefore # lastBatch.prevError
  /\ lastBatch.errAfter = lastBatch.prevError

\* C5 as stated: after a batch without a rejection lastError equals the value
\* it had when the gap arrived.
C5_Original ==
  (lastBatch.seen /\ Rejected(lastBatch.results) = {}) =>
    lastBatch.errAfter = lastBatch.prevError

\* the gap of the last step found a batch unsettled
C20_GapWhileInFlight ==
  (lastGap.seen /\ lastGap.open) =>
    /\ ~lastGap.started
    /\ Pending(tasks) # {}
    /\ gapRecovery.inFlight
    /\ gapRecovery.lastAttemptAt = lastGap.prevStart
    /\ lastStart = lastGap.prevStart
    /\ Len(eventLogBuffer) > 0
    /\ eventLogBuffer[1].event = "gateway.gap"
    /\ eventLogBuffer[1].payload = lastGap.info

\* a gap on a connected host with no batch unsettled and outside the
\* debounce window starts a batch
C20_GapAfterSettle ==
  (/\ lastGap.seen /\ lastGap.wasConnected /\ ~lastGap.open
   /\ lastGap.prevStart # NegInf
   /\ lastGap.at - lastGap.prevStart >= GAP_SELF_HEAL_DEBOUNCE_MS) =>
    /\ lastGap.started
    /\ gapRecovery.inFlight
    /\ gapRecovery.lastAttemptAt = lastGap.at

\* inFlight is set exactly while the refreshes of a batch are unsettled
C20_InFlight ==
  /\ gapRecovery.inFlight <=> Pending(tasks) # {}
  /\ lastBatch.seen => ~gapRecovery.inFlight

\* C20: at most one resync batch is in flight: a gap that arrives while a
\* batch is unsettled, however long ago it started, starts no refresh and
\* leaves lastAttemptAt unchanged, and is still logged as gateway.gap;
\* inFlight is false again once the batch has settled, with or without a
\* rejected refresh, so that a later gap outside the debounce window starts a
\* new batch.
C20_OneBatchInFlight ==
  C20_InFlight /\ C20_GapWhileInFlight /\ C20_GapAfterSettle

\* a gap arrived more than 3000 ms after the start of a batch that had not
\* settled, and started nothing
C20_Witness ==
  /\ lastGap.seen /\ lastGap.open
  /\ lastGap.at - lastGap.prevStart > GAP_SELF_HEAL_DEBOUNCE_MS
  /\ gapRecovery.inFlight
  /\ gapRecovery.lastAttemptAt = lastGap.prevStart

\* the step is a gap that started a batch
BatchStarts == lastGap'.seen /\ lastGap'.started

\* the step is one of the coordinator: a gap, or a refresh that settles
HealStep == lastGap'.seen \/ tasks' # tasks

C24_HistoryIffNoRun ==
  BatchStarts => (tasks'["loadChatHistory"] = "pending" <=> chatRunId = NullId)

C24_OriginalStep ==
  /\ C24_HistoryIffNoRun
  /\ (chatRunId # NullId /\ HealStep) =>
       /\ chatMessages' = chatMessages
       /\ (lastError # Null => lastError' # Null)

C24_Step ==
  /\ C24_HistoryIffNoRun
  /\ (chatRunId # NullId /\ lastGap'.seen) =>
       /\ tasks'["loadChatHistory"] = tasks["loadChatHistory"]
       /\ chatMessages' = chatMessages
       /\ lastError' = lastError
  /\ (HealStep /\ chatMessages' # chatMessages) =>
       /\ tasks["loadChatHistory"] = "pending"
       /\ tasks'["loadChatHistory"] # "pending"
  /\ (chatRunId # NullId /\ HealStep) => (lastError # Null => lastError' # Null)

ExpectedAt(k) == IF k = 1 THEN helloSeq ELSE delivered[k - 1] + 1

\* the log entries that the k-th delivered frame must have produced, newest
\* first: the frame itself, after the gap it revealed if it revealed one
EntriesOf(k) ==
  <<[event |-> "health", payload |-> [seq |-> delivered[k]]]>>
  \o (IF delivered[k] # ExpectedAt(k)
      THEN <<[event |-> "gateway.gap",
              payload |-> [expected |-> ExpectedAt(k), received |-> delivered[k]]]>>
      ELSE <<>>)

RECURSIVE LogOf(_)
LogOf(k) == IF k = 0 THEN <<>> ELSE EntriesOf(k) \o LogOf(k - 1)

\* C2: the log of the host holds, for the frames that reached the client and
\* in their order, each frame exactly once, and a gateway.gap entry
\* {expected, received} exactly before each frame whose seq was not the one
\* after the previous delivered frame (or the handshake's first seq); it
\* holds nothing for a frame that was lost.
C2_GapExactlyOnMismatch ==
  /\ eventLogBuffer = LogOf(Len(delivered))
  /\ expectedSeq = ExpectedAt(Len(delivered) + 1)
  /\ (lastGap.seen => /\ Len(delivered) > 0
                      /\ lastGap.info.received = delivered[Len(delivered)]
                      /\ lastGap.info.expected = ExpectedAt(Len(delivered))
                      /\ lastGap.info.expected < lastGap.info.received)

\* a frame after a lost one has arrived, with frames in sequence before and
\* after it: one gap is in the log
C2_Witness ==
  /\ Len(delivered) = 3
  /\ delivered[1] = helloSeq
  /\ delivered[2] = helloSeq + 2
  /\ delivered[3] = helloSeq + 3
  /\ Len(eventLogBuffer) = 4
  /\ eventLogBuffer[3].event = "gateway.gap"

(***************************************************************************)
(* Properties of the exec-approval queue.                                  *)
(***************************************************************************)
\* the ticket has a pending timer that removes it at expiresAtMs + 500, or
\* one that is due already if that time was past when it was enqueued
HasExpiryTimer(entry) ==
  \E k \in 1..Len(timers) :
    /\ timers[k].id = entry.id
    /\ \/ timers[k].due = entry.expiresAtMs + 500
       \/ (timers[k].due >= entry.expiresAtMs + 500 /\ timers[k].due <= now)

C6_Queue ==
  /\ \A k \in 1..Len(execApprovalQueue) : HasExpiryTimer(execApprovalQueue[k])
  /\ (apprEvent.kind \in {"resolved", "timer"}
        => apprEvent.id \notin QueueIds(execApprovalQueue))
  /\ (apprEvent.kind = "requested"
        => apprEvent.id \in QueueIds(execApprovalQueue))

C6_Reappears ==
  \A a \in ApprovalIds :
    (a \notin QueueIds(execApprovalQueue) /\ a \in QueueIds(execApprovalQueue'))
    => (apprEvent' = [kind |-> "requested", id |-> a] /\ apprEvents' = apprEvents + 1)

ResolvedStep(a) ==
  /\ apprEvent' = [kind |-> "resolved", id |-> a]
  /\ apprEvents' = apprEvents + 1

\* the step is the callback of a timer of id a
TimerStep(a) ==
  /\ apprEvent' = [kind |-> "timer", id |-> a]
  /\ Len(timers') = Len(timers) - 1

\* what a notification or an error would show in
ApprovalNotices == <<execApprovalError, lastError, eventLogBuffer>>

C21_Step ==
  \A a \in ApprovalIds :
    /\ ResolvedStep(a) =>
         /\ a \notin QueueIds(execApprovalQueue')
         /\ \A k \in 1..Len(execApprovalQueue') :
              \E j \in 1..Len(execApprovalQueue) :
                execApprovalQueue'[k] = execApprovalQueue[j]
         /\ \A j \in 1..Len(execApprovalQueue) :
              execApprovalQueue[j].id # a
                => \E k \in 1..Len(execApprovalQueue') :
                     execApprovalQueue'[k] = execApprovalQueue[j]
         /\ (a \notin QueueIds(execApprovalQueue)
               => execApprovalQueue' = execApprovalQueue)
         /\ execApprovalError' = execApprovalError
         /\ lastError' = lastError
         /\ timers' = timers
    /\ (TimerStep(a) /\ a \notin QueueIds(execApprovalQueue)) =>
         /\ execApprovalQueue' = execApprovalQueue
         /\ ApprovalNotices' = ApprovalNotices

\* C21: a resolved event for an id removes the ticket with that id and no
\* other, whether or not the ticket's expiresAtMs has passed, and cancels no
\* timer; the callback of a timer whose id is not in the queue leaves the
\* queue, the errors and the event log as they are; a resolved event for an
\* id that is not in the queue (its timer fired first) leaves the queue and
\* the errors as they are.
C21_ResolveExpiryRace == [][C21_Step]_vars

\* the timer of a ticket fired first and removed it, and the resolved event
\* for its id has arrived since
C21_Witness ==
  /\ apprEvent.kind = "resolved"
  /\ ~(\E k \in 1..Len(timers) : timers[k].id = apprEvent.id)
  /\ execApprovalQueue = <<>>
  /\ execApprovalError = Null
  /\ Len(eventLogBuffer) = 2
  /\ eventLogBuffer[1].event = "exec.approval.resolved"
  /\ eventLogBuffer[1].payload.id = apprEvent.id
  /\ eventLogBuffer[2].event = "exec.approval.requested"
  /\ eventLogBuffer[2].payload.id = apprEvent.id
  /\ eventLogBuffer[2].payload.expiresAtMs + 500 <= now

\* the ticket is in the queue before the step and not after it
Leaves(entry) ==
  /\ \E j \in 1..Len(execApprovalQueue) : execApprovalQueue[j] = entry
  /\ ~(\E k \in 1..Len(execApprovalQueue') : execApprovalQueue'[k] = entry)

C30_Step ==
  \A j \in 1..Len(execApprovalQueue) :
    Leaves(execApprovalQueue[j]) =>
      \/ ResolvedStep(execApprovalQueue[j].id)
      \/ apprEvent' = [kind |-> "reset", id |-> NullId]
      \/ /\ TimerStep(execApprovalQueue[j].id)
         /\ execApprovalQueue[j].expiresAtMs <= now

\* C30: a ticket leaves the queue only by a resolved event for its id, by
\* the reset of a reconnect, or by a timer callback for its id that runs when
\* the ticket's expiresAtMs has passed.
C30_OnlyOwnTimerRemoves == [][C30_Step]_vars

(***************************************************************************)
(* Properties of DingTalk outbound delivery.                               *)
(***************************************************************************)
\* the call's proactive send failed while fallback was enabled and an
\* unexpired webhook was cached for its (accountId, to)
FallbackDue ==
  /\ sendTrace.proactiveFailed
  /\ dingtalkConfig.outboundFallbackToSessionWebhook \in {"unset", "true"}
  /\ sendTrace.cached.present
  /\ sendTrace.failedAt < sendTrace.cached.expiresAt

\* C7: when the proactive send of sendText or sendMedia fails, fallback is
\* enabled and an unexpired session webhook is cached for (accountId, to),
\* sendBySession is called exactly once, with the cached webhook, and posts to
\* it at most once; the call returns ok:true if that delivery succeeds and
\* otherwise ok:false with an error that holds the proactive and the fallback
\* error payload.
C7_FallbackOnce ==
  (sendPc \in {"fallback", "done"} /\ FallbackDue) =>
    /\ sendTrace.proactiveCalls = 1
    /\ sendTrace.sessionCalls = 1
    /\ sendTrace.webhook = sendTrace.cached.sessionWebhook
    /\ sendTrace.webhookPosts <= 1
    /\ (sendPc = "done" =>
          IF sendTrace.fallbackFailed
          THEN sendResult = FailResult(BothError(sendTrace.proactive,
                                                 sendTrace.fallback))
          ELSE sendTrace.webhookPosts = 1 /\ sendResult = OkResult("sent"))

\* sendMedia has returned ok:false with both payloads after its proactive
\* send and its post to the cached webhook failed
C7_Witness ==
  /\ sendPc = "done"
  /\ sendReq.kind = "media"
  /\ FallbackDue
  /\ sendTrace.fallbackFailed
  /\ sendTrace.webhookPosts = 1
  /\ sendResult.returned /\ ~sendResult.ok
  /\ sendResult.error.fields = {"proactive", "fallback"}
  /\ sendResult.error.proactive = "timeout"
  /\ sendResult.error.fallback = "errbody"

\* C8: when the proactive send fails and no fallback is attempted (fallback
\* switched off, or no unexpired webhook cached for (accountId, to)), no
\* session-webhook send is made and the call returns ok:false with an error
\* object that has the field proactive and no field fallback; when the
\* proactive send succeeds no fallback send is made.
C8_NoFallbackShape ==
  (sendPc = "done" /\ sendTrace.proactiveCalls = 1) =>
    /\ (sendTrace.proactiveFailed /\ ~FallbackDue =>
          /\ sendTrace.sessionCalls = 0
          /\ sendTrace.webhookPosts = 0
          /\ sendResult.returned /\ ~sendResult.ok
          /\ sendResult.error.kind = "object"
          /\ sendResult.error.fields = {"proactive"}
          /\ sendResult.error.proactive = sendTrace.proactive)
    /\ (~sendTrace.proactiveFailed =>
          /\ sendTrace.sessionCalls = 0
          /\ sendTrace.webhookPosts = 0
          /\ sendResult.ok)

\* the last step handled an inbound message
InboundStep == inbound'.seen /\ inbounds' = inbounds + 1

\* the key under which the last inbound message is cached
InboundKey ==
  LET d == inbound.data
      senderId == IF d.senderStaffId \in {Undefined, <<>>} THEN d.senderId
                  ELSE d.senderStaffId
  IN (IF inbound.accountId = Undefined THEN Default ELSE inbound.accountId)
       \o <<":">> \o (IF d.conversationType = "1" THEN senderId ELSE d.conversationId)

\* the key the current call of sendText / sendMedia looks up
SendKey ==
  (IF sendReq.accountId = Undefined THEN Default ELSE sendReq.accountId)
    \o <<":">> \o sendReq.to

\* the last step was the lookup of sendText / sendMedia
LookupStep ==
  /\ sendTrace'.proactiveFailed /\ ~sendTrace.proactiveFailed
  /\ sendReq' = sendReq
  /\ dingtalkConfig.outboundFallbackToSessionWebhook # "false"

\* what a step does to the cache
C15_Step ==
  /\ \A k \in DOMAIN sessionWebhookCache :
       k \notin DOMAIN sessionWebhookCache' =>
         sessionWebhookCache[k].expiresAt <= now
  /\ \A k \in DOMAIN sessionWebhookCache' :
       (k \notin DOMAIN sessionWebhookCache
        \/ sessionWebhookCache'[k] # sessionWebhookCache[k]) =>
         /\ InboundStep
         /\ k = InboundKey'
         /\ sessionWebhookCache'[k].sessionWebhook = inbound'.data.sessionWebhook
         /\ sessionWebhookCache'[k].expiresAt > now
  /\ CleanupSessionWebhookCache =>
       \A k \in DOMAIN sessionWebhookCache' : sessionWebhookCache'[k].expiresAt > now
  /\ LookupStep =>
       IF SendKey \in DOMAIN sessionWebhookCache
       THEN IF sessionWebhookCache[SendKey].expiresAt <= now
            THEN /\ SendKey \notin DOMAIN sessionWebhookCache'
                 /\ sendTrace'.sessionCalls = 0
            ELSE /\ sendTrace'.sessionCalls = 1
                 /\ sendTrace'.webhook = sessionWebhookCache[SendKey].sessionWebhook
       ELSE sendTrace'.sessionCalls = 0

\* the webhook the fallback goes to was cached and unexpired at the lookup
C15_Returned ==
  (sendTrace.sessionCalls = 1) =>
    /\ sendTrace.cached.present
    /\ sendTrace.failedAt < sendTrace.cached.expiresAt
    /\ sendTrace.webhook = sendTrace.cached.sessionWebhook

\* C15: getCachedSessionWebhook never returns an entry whose expiresAt is at
\* or before now: the lookup deletes such an entry, and so does the sweep,
\* which deletes no other entry; an entry is written only by the handler of
\* an inbound message for its (accountId, to), with that message's webhook,
\* so that the lookup of an unexpired entry returns the webhook of the most
\* recent inbound message cached for (accountId, to).
C15_CacheExpiry == []C15_Returned /\ [][C15_Step]_vars

\* the lookup fell exactly on the expiry of the entry, which it deleted
C15_Witness ==
  /\ sendTrace.proactiveFailed
  /\ sendTrace.cached.present
  /\ sendTrace.failedAt = sendTrace.cached.expiresAt
  /\ sendTrace.sessionCalls = 0
  /\ dingtalkConfig.outboundFallbackToSessionWebhook = "unset"
  /\ SendKey \notin DOMAIN sessionWebhookCache

\* C16: with sessionWebhookCacheTtlMs = 0 cacheSessionWebhook stores nothing,
\* so that a proactive send that fails later has no fallback.
C16_ZeroTtlStoresNothing ==
  (dingtalkConfig.sessionWebhookCacheTtlMs = 0) =>
    /\ sessionWebhookCache = EmptyMap
    /\ sendTrace.sessionCalls = 0
    /\ (sendPc = "done" /\ sendTrace.proactiveFailed) =>
         (sendResult.returned /\ ~sendResult.ok)

\* a proactive send failed after an inbound message with a ttl of 0, fallback
\* not switched off
C16_Witness ==
  /\ dingtalkConfig.sessionWebhookCacheTtlMs = 0
  /\ dingtalkConfig.outboundFallbackToSessionWebhook = "unset"
  /\ inbounds >= 1
  /\ sendPc = "done"
  /\ sendTrace.proactiveFailed
  /\ sendReq.accountId = Undefined /\ sendReq.to = U1

(***************************************************************************)
(* Properties of the DingTalk allowlist.                                   *)
(***************************************************************************)
\* the id an allowFrom entry or a sender id stands for
NormalizedId(raw) == ToLowerCase(StripChannelPrefix(Trim(raw)))

\* the sender of the last inbound message
InboundSender == OrElse(inbound.data.senderStaffId, inbound.data.senderId)

\* the last inbound message was a direct message under dmPolicy=allowlist
AllowlistedDirect ==
  /\ inbound.seen
  /\ dingtalkConfig.dmPolicy = "allowlist"
  /\ inbound.data.conversationType = "1"

\* C9: under dmPolicy=allowlist, for every allowFrom list, the empty one
\* included, a direct message is handed to the agent only if the sender id
\* matches a normalized allowFrom entry or the list holds the wildcard.
C9_AllowlistRestricts ==
  (AllowlistedDirect /\ "dispatched" \in inbound.effects) =>
    \/ Includes(TrimAll(dingtalkConfig.allowFrom), Wildcard)
    \/ \E k \in 1..Len(dingtalkConfig.allowFrom) :
         /\ Trim(dingtalkConfig.allowFrom[k]) \notin {<<>>, Wildcard}
         /\ NormalizedId(dingtalkConfig.allowFrom[k])
              \in {NormalizedId(InboundSender), ToLowerCase(InboundSender)}

\* allowFrom names the id and nothing else
NamesOnly(list, id) ==
  /\ Len(list) > 0
  /\ \A k \in 1..Len(list) : NormalizedId(list[k]) = id

\* C10: under dmPolicy=allowlist with allowFrom naming u1 only, a direct
\* message is handed to the agent if its sender id normalizes to u1 and is
\* blocked otherwise, whatever prefix or letter case the entry or the sender
\* id carries.
C10_NormalizedAlike ==
  (/\ AllowlistedDirect
   /\ NamesOnly(dingtalkConfig.allowFrom, U1)
   /\ Bot \notin {inbound.data.senderId, inbound.data.senderStaffId}) =>
    /\ ("dispatched" \in inbound.effects <=> NormalizedId(InboundSender) = U1)
    /\ ("denied" \in inbound.effects <=> NormalizedId(InboundSender) # U1)

\* the direct message of the last step was blocked by the allowlist
C11_Step ==
  (InboundStep /\ "denied" \in inbound'.effects) =>
    /\ sessionWebhookCache' = sessionWebhookCache
    /\ inbound'.effects \subseteq {"denied", "denialReply"}
    /\ Len(inbound'.replies) = 1
    /\ inbound'.replies[1].text = "denied"
    /\ inbound'.replies[1].webhook = inbound'.data.sessionWebhook
    /\ ("denialReply" \in inbound'.effects <=> inbound'.replies[1].ok)

\* C11: a direct message blocked by the allowlist has no effect but one
\* access-denied reply through the message's own session webhook: it is not
\* routed or recorded, the webhook cache is not written, no 'thinking'
\* message is sent, the agent is not dispatched, and a denial that fails is
\* not sent again.
C11_BlockedHasNoEffect == [][C11_Step]_vars

\* a direct message was blocked and its denial reply failed
C11_Witness ==
  /\ AllowlistedDirect
  /\ inbound.effects = {"denied"}
  /\ Len(inbound.replies) = 1
  /\ ~inbound.replies[1].ok

\* the message of the last step came from the robot itself
C17_Step ==
  (InboundStep /\ Bot \in {inbound'.data.senderId, inbound'.data.senderStaffId}) =>
    /\ sessionWebhookCache' = sessionWebhookCache
    /\ inbound'.effects = {}
    /\ inbound'.replies = <<>>

\* C17: an inbound message whose senderId or senderStaffId is the robot's
\* own chatbotUserId is ignored: no reply is sent, no session is routed or
\* recorded, the webhook cache is not written and the agent is not dispatched.
C17_SelfMessageIgnored == [][C17_Step]_vars

\* a message with the robot's id as senderStaffId only was ignored, under a
\* policy that would have let its senderId through
C17_Witness ==
  /\ inbound.seen
  /\ inbound.data.senderStaffId = Bot
  /\ inbound.data.senderId = U2
  /\ DmPolicy(dingtalkConfig) = "open"
  /\ inbound.effects = {}

(***************************************************************************)
(* Properties of retryWithBackoff and getAccessToken.                      *)
(***************************************************************************)
RetryDone == retry.pc \in {"returned", "thrown"}

\* the transient statuses: 401, 429 and 5xx
Transient(err) == err.status \in {401, 429} \/ err.status >= 500

\* what one retryWithBackoff call has done so far
C13_Bounded ==
  /\ retry.calls <= retry.maxRetries
  /\ retry.calls <= Len(retry.delays) + 1
  /\ \A i \in 1..Len(retry.delays) :
       /\ Transient(retry.errors[i])
       /\ retry.delays[i] = retry.baseDelayMs * Pow2(i - 1)
  /\ \A i \in 1..Len(retry.errors) :
       (~Transient(retry.errors[i]) \/ i = retry.maxRetries) =>
         /\ i = Len(retry.errors)
         /\ retry.pc = "thrown"
         /\ retry.result = retry.errors[i]
         /\ Len(retry.delays) = i - 1
  /\ (retry.pc = "returned") =>
       /\ retry.result.ok
       /\ retry.calls = Len(retry.errors) + 1

\* C13: retryWithBackoff calls fn at most maxRetries times and terminates; it
\* calls fn again only after an error with status 401, 429 or >= 500, having
\* waited baseDelayMs * 2^(attempt-1); any other error and the error of the
\* last allowed attempt are rethrown unchanged at once, and after a value or
\* a rethrown error fn is not called again.
C13_RetryBounded ==
  /\ []C13_Bounded
  /\ [][RetryDone => retry' = retry]_vars
  /\ <>RetryDone

\* the second attempt failed with a validation error after a 429
C13_Witness ==
  /\ retry.pc = "thrown"
  /\ retry.maxRetries = 3
  /\ retry.calls = 2
  /\ retry.delays = <<retry.baseDelayMs>>
  /\ retry.result = FnError(400)

\* C12: getAccessToken called with an account's config never returns a token
\* that was fetched with another account's credentials.
C12_TokenPerAccount ==
  \A c \in CallIds :
    (tokenCalls[c].pc = "done" /\ tokenCalls[c].result.ok) =>
      tokenCalls[c].result.value = IssueToken(tokenCalls[c].config.clientId)

\* the token request of call c is in flight
TokenRequestInFlight(c) ==
  /\ tokenCalls[c].pc = "fetch"
  /\ tokenCalls[c].retry.pc = "call"

\* C22: of the getAccessToken calls made with one account's config, at most
\* one has a token request in flight.
C22_SingleFlight ==
  \A c1, c2 \in CallIds :
    (/\ TokenRequestInFlight(c1)
     /\ TokenRequestInFlight(c2)
     /\ tokenCalls[c1].config = tokenCalls[c2].config) => c1 = c2

\* C23: an attempt of the card request that follows an attempt answered with
\* 401 carries a token of a getAccessToken call made after that answer; and
\* getAccessToken returns the cached token without a request only while
\* accessTokenExpiry is more than 60 000 ms after Date.now().
C23_FreshTokenAfter401 ==
  /\ \A i \in 1..(Len(cardCall.attempts) - 1) :
       cardCall.attempts[i].status = 401
         => cardCall.attempts[i + 1].tokenCall > cardCall.attempts[i].tokenCall
  /\ \A c \in CallIds :
       (tokenCalls[c].pc = "done" /\ tokenCalls[c].retry = NoRetry)
         => accessTokenExpiry > tokenCalls[c].now + 60000

\* C14: a proactive send whose request fails with status 401, 429 or 5xx is
\* attempted again before sendText / sendMedia falls back to the session
\* webhook or reports the failure.
C14_ProactiveRetried ==
  (/\ sendTrace.proactiveFailed
   /\ sendTrace.proactivePosts >= 1
   /\ sendTrace.proactiveStatus \in {401, 429, 500, 503}) =>
    sendTrace.proactivePosts > 1

(***************************************************************************)
(* Properties of the chat controller.                                      *)
(***************************************************************************)
\* the last step was handleChatEvent with an event of the handler's session
\* for a run other than the one in flight
ForeignEventStep ==
  /\ chatReturn'.called
  /\ chatReturn'.payload.present
  /\ chatReturn'.payload.sessionKey = chatState.sessionKey
  /\ chatState.chatRunId # NullId
  /\ chatReturn'.payload.runId # chatState.chatRunId

\* C18: a chat event of the handler's session for a run other than the one
\* in flight leaves chatRunId, chatStream, chatStreamStartedAt and lastError
\* unchanged; handleChatEvent returns "final" for a final event and null for
\* a delta, aborted or error event.
C18_ForeignRunIgnored ==
  [][ForeignEventStep =>
       /\ chatState' = chatState
       /\ chatReturn'.value =
            IF chatReturn'.payload.state = "final" THEN "final" ELSE NullId]_vars

\* the final event of run r2 came while run r1 was streaming
C18_Witness ==
  /\ chatReturn.called
  /\ chatReturn.payload.runId = "r2"
  /\ chatReturn.payload.state = "final"
  /\ chatReturn.value = "final"
  /\ chatState.chatRunId = "r1"
  /\ chatState.chatStream = Stream(<<"a">>)
  /\ chatState.chatStreamStartedAt # NullTime

(***************************************************************************)
(* Properties of the connection's close.                                   *)
(***************************************************************************)
\* what onClose({code, reason}) of the current client leaves behind
C19_Step ==
  \A code \in ConnCloseCodes, reason \in CloseReasons :
    OnClose(code, reason) =>
      /\ ~connected'
      /\ IF code = 1012
         THEN lastError' = lastError
         ELSE lastError' = <<"app.errors.disconnected", ToString(code),
                             IF reason = "" THEN "app.errors.noReason" ELSE reason>>

\* C19: when the current client's connection closes, host.connected becomes
\* false, and host.lastError becomes the disconnect message with the close
\* code and reason if and only if the code is not 1012; on a 1012 close
\* lastError is left as it was.
C19_CloseSetsError == [][C19_Step]_vars

\* a chat error is still showing on a host that is no longer connected: the
\* chat handlers write lastError only while connected, and every close but
\* the one with code 1012 overwrites it
C19_Witness ==
  /\ ~connected
  /\ lastError = ChatEventError

(***************************************************************************)
(* Properties of connectGateway and the callbacks of its clients.          *)
(***************************************************************************)
\* the three pointers to the run in flight are null together
C25_RunPointers ==
  /\ (chatRunId = NullId) = (hostFields.chatStream = NoStream)
  /\ (chatRunId = NullId) = (hostFields.chatStreamStartedAt = NullTime)

\* the session keys that the defaults d redirect to their mainSessionKey
MainAliases(d) ==
  {MainKey}
  \cup (IF Trim(d.mainKey) # <<>> THEN {Trim(d.mainKey)} ELSE {})
  \cup (IF Trim(d.defaultAgentId) # <<>>
        THEN {AgentKey(Trim(d.defaultAgentId), MainKey)} ELSE {})

C25_HelloStep(hello) ==
  LET snapshot == hello.snapshot
      d == snapshot.sessionDefaults
  IN /\ connected'
     /\ lastError' = Null
     /\ hostFields'.hello = hello
     /\ chatRunId' = NullId
     /\ hostFields'.chatStream = NoStream
     /\ hostFields'.chatStreamStartedAt = NullTime
     /\ hostFields'.presenceEntries =
          IF snapshot.presence.defined THEN snapshot.presence.value
          ELSE hostFields.presenceEntries
     /\ hostFields'.debugHealth =
          IF snapshot.health.defined THEN snapshot.health
          ELSE hostFields.debugHealth
     /\ hostFields'.sessionKey =
          IF d.defined /\ Trim(d.mainSessionKey) # <<>>
             /\ hostFields.sessionKey \in MainAliases(d)
          THEN Trim(d.mainSessionKey)
          ELSE hostFields.sessionKey
     /\ hostFields'.client = hostFields.client
     /\ UNCHANGED <<execApprovalQueue, chatMessages>>

C25_ConnectStep ==
  /\ ~connected'
  /\ lastError' = Null
  /\ execApprovalQueue' = <<>>
  /\ execApprovalError' = Null
  /\ hostFields'.hello = NoHello
  /\ hostFields'.client # hostFields.client
  /\ UNCHANGED <<chatRunId, chatMessages>>

C25_Step ==
  /\ \A hello \in Hellos :
       ClientHello(hostFields.client, hello) => C25_HelloStep(hello)
  /\ ConnectGatewayHost => C25_ConnectStep

\* C25: onHello of the current client sets connected, clears lastError,
\* stores the hello, applies the presence, the health and the session
\* defaults that its snapshot holds, and sets chatRunId, chatStream and
\* chatStreamStartedAt to null; connectGateway empties execApprovalQueue,
\* clears both errors and the hello, sets connected to false and gives the
\* host a new client; chatRunId, chatStream and chatStreamStartedAt are null
\* together in every state.
C25_HelloResets == []C25_RunPointers /\ [][C25_Step]_vars

\* a run was started and a ticket queued on the first client; after
\* connectGateway the second client's hello has come, with a full snapshot
C25_Witness ==
  /\ connected
  /\ hostFields.client = 2
  /\ hostFields.hello.defined
  /\ hostFields.presenceEntries = <<"p1">>
  /\ hostFields.debugHealth = Given("ok")
  /\ hostFields.sessionKey = AgentKey(<<"a">>, MainKey)
  /\ chatMessages = <<"user">>
  /\ chatRunId = NullId
  /\ hostFields.chatStream = NoStream
  /\ execApprovalQueue = <<>>
  /\ apprEvents = 1
  /\ apprEvent.kind = "reset"

\* the step is a callback of client c
ClientCallback(c) ==
  \/ \E hello \in Hellos : ClientHello(c, hello)
  \/ \E code \in CloseCodes : ClientClose(c, code, "")
  \/ \E payload \in PresencePayloads : ClientEvent(c, payload)
  \/ \E i \in GapInfos : ClientGap(c, i)

\* C28: a callback of a client that connectGateway has replaced changes no
\* field of the host, appends nothing to the event log and starts no batch.
C28_SupersededIsInert ==
  [][\A c \in 1..MaxClients :
       (c < hostFields.client /\ ClientCallback(c)) =>
         UNCHANGED <<connected, lastError, chatRunId, hostFields, chatMessages,
                     execApprovalQueue, execApprovalError, eventLogBuffer,
                     gapRecovery, tasks>>]_vars

(***************************************************************************)
(* Properties of the cache sweep's timer.                                  *)
(***************************************************************************)
\* C27: at most one timer of the cache sweep is scheduled, and one is
\* scheduled while an account that was started has not been stopped.
C27_SweepScheduled ==
  /\ Cardinality(intervals) <= 1
  /\ (\E a \in SweepAccounts : accountPc[a] \in {"connecting", "running"})
       => intervals # {}

(***************************************************************************)
(* Properties of the chat panels' registry and of the routing.             *)
(***************************************************************************)
\* the indexes under which panel p is registered
RegisteredAt(p) == {i \in PanelIndexes : registry[i] = p}

\* C29: a mounted panel is registered under its panelIndex and no other
\* index, and a panel that is not mounted is not registered.
C29_RegistryMatchesPanels ==
  \A p \in PanelIds :
    RegisteredAt(p) = IF panels[p].mounted THEN {panels[p].panelIndex} ELSE {}

\* C26: a chat event whose sessionKey is that of registered panels is given
\* once to each of them and not to the host; otherwise it is given once to
\* the host, whose state it changes only when the sessionKey is the host's.
C26_RoutedOnce ==
  dispatch.seen =>
    LET key == IF dispatch.payload.present THEN dispatch.payload.sessionKey ELSE ""
        matching == {p \in PanelIds :
                       RegisteredAt(p) # {} /\ panels[p].chat.sessionKey = key}
    IN IF key # "" /\ matching # {}
       THEN /\ \A p \in PanelIds :
                 dispatch.applied[p] = IF p \in matching THEN 1 ELSE 0
            /\ dispatch.host = 0
       ELSE /\ \A p \in PanelIds : dispatch.applied[p] = 0
            /\ dispatch.host = 1
            /\ key # dispatch.hostBefore.sessionKey => chatState = dispatch.hostBefore

====
